---- MODULE Spec2Model ----
(***************************************************************************)
(* GWO-glitch-visualization: script runs of glitchplot.py and the helper   *)
(* modules of gwogv_util (q_transform, spectrogram, data_loader, raw_data, *)
(* filtered_data, asd_spectrum, available_data).                           *)
(*                                                                         *)
(* Time.  All timestamps and durations are integers counting ticks of      *)
(* 1/80 s, the coarsest grid that holds T_ELBOW_ROOM = 46.7 s, the initial *)
(* timestamp ...882.4 and the half width 0.0625 s exactly.  A timestamp    *)
(* is stored as its distance from GPS second 1187008512 = 512 * 2318376,   *)
(* a common multiple of every cache block size (32, 256, 512 s), so that   *)
(* rounding to block boundaries is the same on the distance as on the      *)
(* GPS value.                                                              *)
(*                                                                         *)
(* Data.  The strain archive is fixed: variable gap is the interval of     *)
(* L1 samples that are NaN (empty when lo = hi).  A TimeSeries is          *)
(* represented by what determines its samples: interferometer, sample      *)
(* rate and time span.                                                     *)
(***************************************************************************)
EXTENDS Integers, Sequences, FiniteSets, TLC

Sec(x) ==
    80 * x

Min2(a, b) ==
    IF a <= b THEN a ELSE b

Min3(a, b, c) ==
    Min2(a, Min2(b, c))

Max2(a, b) ==
    IF a >= b THEN a ELSE b

\* rounding to the nearest integer instead of rounding up
ceil_rounded(x, b) ==
    (2 * x + b) \div (2 * b)

\* math.floor(x / b) and math.ceil(x / b) for b > 0
floor(x, b) ==
    x \div b

ceil(x, b) ==
    -((-x) \div b)

(***************************************************************************)
(* Program constants                                                       *)
(***************************************************************************)
\* an elbow room of 40 s, too tight for the widest plot plus T_PAD
T_ELBOW_ROOM_TIGHT ==
    Sec(40)

\* an elbow room of 50 s, more than one and a half blocks of 32 s
T_ELBOW_ROOM_WIDE ==
    Sec(50)

INITIAL_T0_GPS ==
    29632

T_ELBOW_ROOM ==
    3736

T_PAD ==
    640

HIGH_RATE ==
    16384

LOW_RATE ==
    4096

\* default fduration of TimeSeries.q_transform (third attempt), 2 s
DEFAULT_FDURATION ==
    160

t_widths ==
    {10, 20, 40, 80, 160, 320, 640, 1280, 2560, 5120}

INITIAL_WIDTH ==
    320

sample_rates ==
    {LOW_RATE, HIGH_RATE}

interferometers ==
    {"H1", "L1", "V1"}

\* calib_freqs_low, in 1/100 Hz
calib_freqs_low(ifo) ==
    IF ifo = "V1" THEN 2000 ELSE 1000

\* f_detents_eff[1] and f_detents_eff[28], in 1/100 Hz
f_initial_range ==
    <<951, 121800>>

\* background offsets of up to 16 s
asd_offsets_wide ==
    {-Sec(16), -Sec(8), 0, Sec(8), Sec(16)}

\* asd_offsets, in ticks
asd_offsets ==
    {-960, -480, -240, -120, 0, 120, 240, 480, 960}

\* q_values and INITIAL_Q, in 1/100
q_values ==
    {566, 800, 1130, 1600, 2260, 3200, 4530, 6400}

INITIAL_Q ==
    1130

\* st.cache_data(max_entries=...) without the large_caches override
LOW_RATE_MAX_ENTRIES ==
    8

HIGH_RATE_MAX_ENTRIES ==
    3

SPECGRAM_MAX_ENTRIES ==
    4

QGRAM_MAX_ENTRIES ==
    4

\* spec_stride / BASIC_SPEC_STRIDE, 0.125 s
BASIC_SPEC_STRIDE ==
    10

(***************************************************************************)
(* Bounds of the model                                                     *)
(***************************************************************************)
\* sessions (script threads) that may run at the same time
NSessions ==
    2

\* timestamps a user may enter: INITIAL_T0_GPS + k * 41.3 s, |k| <= NPan
NPan ==
    1

\* timestamps of the dense grid: INITIAL_T0_GPS + k * 0.7 s, |k| <= NGrid
NGrid ==
    400

Sessions ==
    1 .. NSessions


(***************************************************************************)
(* State                                                                   *)
(***************************************************************************)
VARIABLES
    pc,              \* per session: position of the script thread
    w,               \* per session: widget values (Streamlit session state)
    v,               \* per session: variables of the running script
    out,             \* per session: elements emitted on the page by this run
    lib,             \* per session: library operations invoked by this run
    lock,            \* holder of each lock, 0 when free
    strain_cache,    \* entries of load_low_rate_strain / load_high_rate_strain
    specgram_cache,  \* entries of make_specgram
    qgram_cache,     \* entries of transform_strain
    gap,             \* the archive: span of L1 samples that are NaN
    libRejects       \* the library: paddings q_transform refuses (ValueError)

vars ==
    <<pc, w, v, out, lib, lock, strain_cache, specgram_cache, qgram_cache,
      gap, libRejects>>

(***************************************************************************)
(* Time series of the external library, by what determines their samples   *)
(***************************************************************************)
\* a TimeSeries: samples of ifo at rate over [lo, hi), plus the sample at
\* hi itself when extra
TimeSeries(ifo, rate, lo, hi, extra) ==
    [ifo |-> ifo, rate |-> rate, lo |-> lo, hi |-> hi, extra |-> extra]

NoSeries ==
    TimeSeries("", 0, 0, 0, FALSE)

\* the tick of the last sample of a series
LastTick(ts) ==
    IF ts.extra THEN ts.hi ELSE ts.hi - 1

\* np.isnan of one sample
IsNaN(ifo, t) ==
    ifo = "L1" /\ gap.lo <= t /\ t < gap.hi

\* np.isnan(ts.max()): some sample of the series is NaN
HasNaN(ts) ==
    /\ ts.ifo = "L1"
    /\ ts.lo <= LastTick(ts)
    /\ gap.lo < gap.hi
    /\ gap.lo <= LastTick(ts)
    /\ ts.lo < gap.hi

\* np.isnan(ts.value[-1])
LastIsNaN(ts) ==
    IsNaN(ts.ifo, LastTick(ts))

\* TimeSeries.crop(start, end); one_more: end lies one sample past tick b
crop(ts, a, b, one_more) ==
    TimeSeries(ts.ifo, ts.rate, Max2(ts.lo, a), Min2(ts.hi, b),
               IF b < ts.hi THEN one_more
               ELSE IF b = ts.hi THEN one_more /\ ts.extra
               ELSE ts.extra)

\* TimeSeries.fetch_open_data(ifo, t_start, t_end + 1/64, sample_rate)
fetch_open_data(desc) ==
    TimeSeries(desc.interferometer, desc.sample_rate,
               desc.t_start, desc.t_end, TRUE)

(***************************************************************************)
(* Data load preparations  (glitchplot.py, 657-664)                        *)
(***************************************************************************)
DataDescriptor(ifo, ts, te, rate) ==
    [interferometer |-> ifo, t_start |-> ts, t_end |-> te,
     sample_rate |-> rate]

t_cache_boundaries(sample_rate, cache_wide_blocks) ==
    IF cache_wide_blocks
    THEN (IF sample_rate < HIGH_RATE THEN Sec(512) ELSE Sec(256))
    ELSE Sec(32)

t_start(t0, block) ==
    block * floor(t0 - T_ELBOW_ROOM, block)

t_end(t0, block) ==
    block * ceil(t0 + T_ELBOW_ROOM, block)

\* t_halfwidth = t_width / 2 (exact: every width is an even tick count)
t_plotstart(t0, t_width) ==
    t0 - (t_width \div 2)

t_plotend(t0, t_width) ==
    t0 + (t_width \div 2)


(***************************************************************************)
(* The external transforms                                                 *)
(***************************************************************************)
\* how much data surrounds outseg, relative to the whitening filter length
PadClass(margin, fduration) ==
    IF margin > fduration THEN "wide"
    ELSE IF margin = fduration THEN "tight"
    ELSE "bare"

\* TimeSeries.q_transform raises ValueError: on NaN samples, and on the
\* paddings the library refuses
QtRaises(ts, outlo, fduration) ==
    \/ HasNaN(ts)
    \/ PadClass(outlo - ts.lo, fduration) \in libRejects

\* the value of TimeSeries.q_transform(outseg, qrange, fres, whiten, fduration)
q_transform(ts, outlo, outhi, q, fres, whiten, fduration) ==
    [ifo |-> ts.ifo, rate |-> ts.rate, lo |-> ts.lo, hi |-> ts.hi,
     outlo |-> outlo, outhi |-> outhi, q |-> q, fres |-> fres,
     whiten |-> whiten, fduration |-> fduration]

NoQGram ==
    q_transform(NoSeries, 0, 0, 0, 0, FALSE, 0)

\* the value of TimeSeries.spectrogram(stride, overlap) ** (1/2.)
spectrogram(ts, stride, overlap) ==
    [ifo |-> ts.ifo, rate |-> ts.rate, lo |-> ts.lo, hi |-> ts.hi,
     extra |-> ts.extra, stride |-> stride, overlap |-> overlap]

NoSpecgram ==
    spectrogram(NoSeries, 0, 0)

(***************************************************************************)
(* transform_strain  (q_transform.py, 57-123; glitchplot.py, 158-209)      *)
(***************************************************************************)
\* fres = ceil(max(600, 24 * q_val) * (1 or 1.3)), q_val in 1/100
fres(q_val, sample_rate) ==
    ceil(Max2(60000, 24 * q_val)
            * (IF sample_rate < HIGH_RATE THEN 10 ELSE 13),
         1000)

\* padding of the first attempt: min(2.5 * t_pad, ...)
full_padding(desc, plotstart, plotend, t_pad) ==
    Min3((5 * t_pad) \div 2,
         desc.t_end - plotend,
         plotstart - desc.t_start)

\* the attempts in another order: reduced padding first
attempt_padding_reduced_first(k, desc, plotstart, plotend, t_pad) ==
    IF k = 1 THEN t_pad
    ELSE IF k = 2 THEN full_padding(desc, plotstart, plotend, t_pad)
    ELSE 0

\* padding of the k-th attempt
attempt_padding(k, desc, plotstart, plotend, t_pad) ==
    IF k = 1 THEN full_padding(desc, plotstart, plotend, t_pad)
    ELSE IF k = 2 THEN t_pad
    ELSE 0

\* fduration of the k-th attempt: the last one leaves it to the library
attempt_fduration(k, t_pad) ==
    IF k = 3 THEN DEFAULT_FDURATION ELSE t_pad

\* strain_cropped of the k-th attempt
attempt_crop(k, strain, desc, plotstart, plotend, t_pad) ==
    crop(strain,
         plotstart - attempt_padding(k, desc, plotstart, plotend, t_pad),
         plotend + attempt_padding(k, desc, plotstart, plotend, t_pad),
         FALSE)

\* a handler that does not tell the second failure from the first
q_warning_stuck(k) ==
    1

\* q_warning as set by the handler entered when attempt k raised
q_warning_after(k) ==
    k

\* the value of a call of transform_strain whose body runs: the result of
\* the first attempt that does not raise, or the ValueError of the third
transform_strain(_strain, desc, plotstart, plotend, t_pad, q_val, whiten) ==
    LET cropped(k) == attempt_crop(k, _strain, desc, plotstart, plotend,
                                   t_pad)
        raises(k) == QtRaises(cropped(k), plotstart,
                              attempt_fduration(k, t_pad))
        result(k) ==
            [raised |-> FALSE,
             q_gram |-> q_transform(cropped(k), plotstart, plotend, q_val,
                                    fres(q_val, desc.sample_rate), whiten,
                                    attempt_fduration(k, t_pad)),
             q_warning |-> IF k = 1 THEN 0 ELSE q_warning_after(k - 1)]
    IN  IF ~raises(1) THEN result(1)
        ELSE IF ~raises(2) THEN result(2)
        ELSE IF ~raises(3) THEN result(3)
        ELSE [raised |-> TRUE, q_gram |-> NoQGram, q_warning |-> 0]

\* the arguments st.cache_data hashes: all but _strain
transform_strain_key(desc, plotstart, plotend, t_pad, q_val, whiten) ==
    [desc |-> desc, t_plotstart |-> plotstart, t_plotend |-> plotend,
     t_pad |-> t_pad, q_val |-> q_val, whiten |-> whiten]

(***************************************************************************)
(* make_specgram  (spectrogram.py, 52-62; glitchplot.py, 149-156)          *)
(***************************************************************************)
\* a key that leaves out the plotted interval
make_specgram_key_no_window(desc, plotstart, plotend, stride, overlap) ==
    [desc |-> desc, stride |-> stride, overlap |-> overlap]

make_specgram_key(desc, plotstart, plotend, stride, overlap) ==
    [desc |-> desc, t_plotstart |-> plotstart, t_plotend |-> plotend,
     stride |-> stride, overlap |-> overlap]

\* the value of a call of make_specgram whose body runs
make_specgram(_strain, stride, overlap) ==
    spectrogram(_strain, stride, overlap)

\* spec_stride = min(t_width / 8, 0.125 s), kept as 8 * stride
spec_stride(t_width) ==
    Min2(t_width, 8 * BASIC_SPEC_STRIDE)

\* spec_overlap = spec_stride / 4, kept as 32 * overlap
spec_overlap(t_width) ==
    spec_stride(t_width)

(***************************************************************************)
(* load_low_rate_strain, load_high_rate_strain  (data_loader.py, 92-102)   *)
(***************************************************************************)
load_strain(sample_rate) ==
    IF sample_rate < HIGH_RATE THEN "load_low_rate_strain"
    ELSE "load_high_rate_strain"

\* a loader that is also handed, and so hashes, the plotted width
load_strain_args_with_width(desc, t_width) ==
    [desc |-> desc, t_width |-> t_width]

\* the arguments the script passes to load_strain, all of them hashed
\* (glitchplot.py, 725-726)
load_strain_args(desc, t_width) ==
    desc

max_entries(fn) ==
    IF fn = "load_low_rate_strain" THEN LOW_RATE_MAX_ENTRIES
    ELSE IF fn = "load_high_rate_strain" THEN HIGH_RATE_MAX_ENTRIES
    ELSE IF fn = "make_specgram" THEN SPECGRAM_MAX_ENTRIES
    ELSE QGRAM_MAX_ENTRIES

\* st.cache_data: the entries of function fn, looked up by key
Cached(cache, fn, key) ==
    {e \in cache : e.fn = fn /\ e.key = key}

\* st.cache_data: the caches that may result from storing an entry; a full
\* cache first drops one of the function's entries
Stored(cache, entry) ==
    LET mine == {e \in cache : e.fn = entry.fn}
    IN  IF Cardinality(mine) < max_entries(entry.fn)
        THEN {cache \cup {entry}}
        ELSE {(cache \ {x}) \cup {entry} : x \in mine}

(***************************************************************************)
(* Exceptions                                                              *)
(***************************************************************************)
\* the classes an exception is an instance of  (exception.py, 23-40)
Bases(e) ==
    IF e = "DataGapError" THEN {"DataGapError", "ValueError", "Exception"}
    ELSE IF e = "ZeroFrequencyRangeError"
    THEN {"ZeroFrequencyRangeError", "ZeroDivisionError", "Exception"}
    ELSE {e, "Exception"}

\* an except clause list catches e
Catches(handlers, e) ==
    handlers \cap Bases(e) # {}

\* handler lists that name the wrong class, or too few classes
qtsf_except_gap ==
    {"DataGapError"}

filtered_except_gap_only ==
    {"DataGapError"}

timestamp_except ==
    {"ValueError"}

load_except ==
    {"Exception"}

raw_except ==
    {"DataGapError"}

filtered_except ==
    {"DataGapError", "ZeroFrequencyRangeError"}

asd_except ==
    {"DataGapError"}

qtsf_except ==
    {"ValueError"}

(***************************************************************************)
(* The rendering lock                                                      *)
(***************************************************************************)
Sections ==
    {"raw", "flag", "filtered", "asd", "spec", "qtsf"}

Locks ==
    {"RendererAgg.lock", "module lock"}

\* a Q-transform module that creates a lock of its own
_lock_per_module(section) ==
    IF section = "qtsf" THEN "module lock" ELSE "RendererAgg.lock"

\* _lock of the code that plots a section: every module binds the one
\* class attribute RendererAgg.lock
_lock(section) ==
    "RendererAgg.lock"


(***************************************************************************)
(* Widgets and script variables                                            *)
(***************************************************************************)
T0Text(valid, gps) ==
    [valid |-> valid, gps |-> gps]

\* the widget defaults  (glitchplot.py, 477-639)
DefaultWidgets ==
    [interferometer |-> "L1", t_width |-> INITIAL_WIDTH,
     t0_text |-> T0Text(TRUE, INITIAL_T0_GPS),
     cache_wide_blocks |-> FALSE, sample_rate |-> LOW_RATE,
     do_plot |-> FALSE, f_range |-> f_initial_range, whiten_plot |-> TRUE,
     do_show_asd |-> FALSE, asd_f_range |-> f_initial_range,
     asd_offset |-> 0,
     do_spec |-> FALSE,
     do_qtsf |-> TRUE, q0 |-> INITIAL_Q, whiten_qtsf |-> TRUE]

NoDescriptor ==
    DataDescriptor("", 0, 0, 0)

\* the namespace of a script run before its first assignment
FreshVars ==
    [t0 |-> 0, desc |-> NoDescriptor, t_plotstart |-> 0, t_plotend |-> 0,
     strain |-> NoSeries, strain_cropped |-> NoSeries,
     asd_bgnd_warning |-> FALSE, specgram |-> NoSpecgram,
     q_gram |-> NoQGram, q_warning |-> 0, q_error |-> FALSE,
     tq_warning |-> 0, attempts |-> <<>>, raised |-> 0,
     raises |-> {}, exc |-> ""]

Ended ==
    {"done", "stopped", "uncaught"}

\* a run of the script begins
Rerun(s) ==
    /\ pc' = [pc EXCEPT ![s] = "prepare"]
    /\ v' = [v EXCEPT ![s] = FreshVars]
    /\ out' = [out EXCEPT ![s] = <<>>]
    /\ lib' = [lib EXCEPT ![s] = {}]
    /\ UNCHANGED <<lock, strain_cache, specgram_cache, qgram_cache,
                   gap, libRejects>>

\* an exception no handler of the script catches ends the run
Uncaught(s, e, site) ==
    /\ pc' = [pc EXCEPT ![s] = "uncaught"]
    /\ v' = [v EXCEPT ![s].exc = e, ![s].raises = @ \cup {site}]

\* an exception raised at a site of the script and caught by a handler
Caught(s, site) ==
    v' = [v EXCEPT ![s].raises = @ \cup {site}]

(***************************************************************************)
(* Interactions: page load and the five sidebar forms                      *)
(***************************************************************************)
Visit(s) ==
    /\ pc[s] = "idle"
    /\ UNCHANGED w
    /\ Rerun(s)

\* form 'load_what'  (glitchplot.py, 477-495)
SubmitLoad(s, ifos, widths, t0s, wides, rates) ==
    /\ pc[s] \in Ended
    /\ \E ifo \in ifos, t_width \in widths, t0_text \in t0s,
          wide \in wides, rate \in rates :
          w' = [w EXCEPT ![s].interferometer = ifo,
                         ![s].t_width = t_width,
                         ![s].t0_text = t0_text,
                         ![s].cache_wide_blocks = wide,
                         ![s].sample_rate = rate]
    /\ Rerun(s)

\* form 'plot_how'  (glitchplot.py, 527-545)
SubmitPlot(s, f_ranges, whitens) ==
    /\ pc[s] \in Ended
    /\ \E do \in BOOLEAN, f_range \in f_ranges, whiten \in whitens :
          w' = [w EXCEPT ![s].do_plot = do,
                         ![s].f_range = f_range,
                         ![s].whiten_plot = whiten]
    /\ Rerun(s)

\* form 'asd_how'  (glitchplot.py, 548-575)
SubmitAsd(s, f_ranges, offsets) ==
    /\ pc[s] \in Ended
    /\ \E do \in BOOLEAN, f_range \in f_ranges, offset \in offsets :
          w' = [w EXCEPT ![s].do_show_asd = do,
                         ![s].asd_f_range = f_range,
                         ![s].asd_offset = offset]
    /\ Rerun(s)

\* form 'spec_how'  (glitchplot.py, 578-610)
SubmitSpec(s) ==
    /\ pc[s] \in Ended
    /\ \E do \in BOOLEAN :
          w' = [w EXCEPT ![s].do_spec = do]
    /\ Rerun(s)

\* form 'qtsf_how'  (glitchplot.py, 613-639)
SubmitQtsf(s, qs, whitens) ==
    /\ pc[s] \in Ended
    /\ \E do \in BOOLEAN, q \in qs, whiten \in whitens :
          w' = [w EXCEPT ![s].do_qtsf = do,
                         ![s].q0 = q,
                         ![s].whiten_qtsf = whiten]
    /\ Rerun(s)

\* a footer that never reaches the page
emit_footer_dropped(page) ==
    page

\* emit_footer()  (glitchplot.py, 265-284): the closing elements of the page
emit_footer(page) ==
    page \o <<"footer">>

(***************************************************************************)
(* Data load preparations and processing  (glitchplot.py, 645-754)         *)
(***************************************************************************)
Prepare(s) ==
    /\ pc[s] = "prepare"
    /\ IF ~w[s].t0_text.valid
       THEN \* any_to_gps raises ValueError
            IF Catches(timestamp_except, "ValueError")
            THEN /\ out' = [out EXCEPT ![s] = emit_footer(@ \o
                       <<"warning:typo", "error:typo", "warning:resubmit">>)]
                 /\ pc' = [pc EXCEPT ![s] = "stopped"]
                 /\ Caught(s, "ValueError@timestamp")
            ELSE /\ Uncaught(s, "ValueError", "ValueError@timestamp")
                 /\ UNCHANGED out
       ELSE LET t0 == w[s].t0_text.gps
                block == t_cache_boundaries(w[s].sample_rate,
                                            w[s].cache_wide_blocks)
            IN  /\ v' = [v EXCEPT
                       ![s].t0 = t0,
                       ![s].desc = DataDescriptor(w[s].interferometer,
                                                  t_start(t0, block),
                                                  t_end(t0, block),
                                                  w[s].sample_rate),
                       ![s].t_plotstart = t_plotstart(t0, w[s].t_width),
                       ![s].t_plotend = t_plotend(t0, w[s].t_width)]
                /\ out' = [out EXCEPT ![s] = @ \o <<"info:t0">>]
                /\ pc' = [pc EXCEPT ![s] = "load"]
    /\ UNCHANGED <<w, lib, lock, strain_cache, specgram_cache, qgram_cache,
                   gap, libRejects>>

\* strain_cropped: one extra sample at the plot edge, unless it is NaN
\* (glitchplot.py, 747-754)
strain_cropped(strain, plotstart, plotend) ==
    IF LastIsNaN(crop(strain, plotstart, plotend, TRUE))
    THEN crop(strain, plotstart, plotend, FALSE)
    ELSE crop(strain, plotstart, plotend, TRUE)

\* load_strain(...) through st.cache_data, then the crops
Load(s) ==
    /\ pc[s] = "load"
    /\ LET fn == load_strain(w[s].sample_rate)
           key == load_strain_args(v[s].desc, w[s].t_width)
           hit == Cached(strain_cache, fn, key)
           loaded(strain) ==
               /\ v' = [v EXCEPT
                      ![s].strain = strain,
                      ![s].strain_cropped =
                          strain_cropped(strain, v[s].t_plotstart,
                                         v[s].t_plotend)]
               /\ out' = [out EXCEPT ![s] = @ \o <<"loaded">>]
               /\ pc' = [pc EXCEPT ![s] = "raw"]
       IN  IF hit # {}
           THEN /\ \E e \in hit : loaded(e.value)
                /\ UNCHANGED <<lib, strain_cache>>
           ELSE /\ lib' = [lib EXCEPT ![s] = @ \cup {"fetch_open_data"}]
                /\ \E fetched \in BOOLEAN :
                      IF fetched
                      THEN /\ loaded(fetch_open_data(v[s].desc))
                           /\ strain_cache' \in
                                 Stored(strain_cache,
                                        [fn |-> fn, key |-> key,
                                         value |-> fetch_open_data(v[s].desc)])
                      ELSE \* fetch_open_data raised
                           /\ UNCHANGED strain_cache
                           /\ IF Catches(load_except, "Exception")
                              THEN /\ out' = [out EXCEPT ![s] =
                                         emit_footer(@ \o
                                            <<"warning:load_failed">>)]
                                   /\ pc' = [pc EXCEPT ![s] = "stopped"]
                                   /\ Caught(s, "Exception@load")
                              ELSE /\ Uncaught(s, "Exception",
                                               "Exception@load")
                                   /\ UNCHANGED out
    /\ UNCHANGED <<w, lock, specgram_cache, qgram_cache, gap, libRejects>>


(***************************************************************************)
(* The sections of the script, in the order of its text                    *)
(* (glitchplot.py, 779, 837, 903, 998, 1051, 1118)                         *)
(***************************************************************************)
\* a script with the spectrogram section ahead of the ASD section
SectionOrderSwapped ==
    <<"raw", "filtered", "spec", "asd", "qtsf">>

SectionOrder ==
    <<"raw", "filtered", "asd", "spec", "qtsf">>

\* where the script goes on when a section is done: the next section, the
\* end game after the last
after(section) ==
    LET i == CHOOSE k \in 1 .. Len(SectionOrder) : SectionOrder[k] = section
    IN  IF i = Len(SectionOrder) THEN "footer" ELSE SectionOrder[i + 1]

(***************************************************************************)
(* with _lock: ...                                                         *)
(***************************************************************************)
Waiting ==
    {"raw_lock", "flag_lock", "filtered_lock", "asd_lock", "spec_lock",
     "qtsf_lock"}

Plotting ==
    {"raw_plot", "flag_plot", "filtered_plot", "asd_plot", "spec_plot",
     "qtsf_plot"}

\* the section a waiting or plotting thread is in
SectionOf(p) ==
    IF p \in {"raw_lock", "raw_plot"} THEN "raw"
    ELSE IF p \in {"flag_lock", "flag_plot"} THEN "flag"
    ELSE IF p \in {"filtered_lock", "filtered_plot"} THEN "filtered"
    ELSE IF p \in {"asd_lock", "asd_plot"} THEN "asd"
    ELSE IF p \in {"spec_lock", "spec_plot"} THEN "spec"
    ELSE "qtsf"

PlotOf(section) ==
    IF section = "raw" THEN "raw_plot"
    ELSE IF section = "flag" THEN "flag_plot"
    ELSE IF section = "filtered" THEN "filtered_plot"
    ELSE IF section = "asd" THEN "asd_plot"
    ELSE IF section = "spec" THEN "spec_plot"
    ELSE "qtsf_plot"

\* entering a with block: blocks until the lock is free
Acquire(s) ==
    /\ pc[s] \in Waiting
    /\ lock[_lock(SectionOf(pc[s]))] = 0
    /\ lock' = [lock EXCEPT ![_lock(SectionOf(pc[s]))] = s]
    /\ pc' = [pc EXCEPT ![s] = PlotOf(SectionOf(pc[s]))]
    /\ UNCHANGED <<w, v, out, lib, strain_cache, specgram_cache, qgram_cache,
                   gap, libRejects>>

\* leaving the with block of a section
Release(s, section) ==
    lock' = [lock EXCEPT ![_lock(section)] = 0]

(***************************************************************************)
(* Raw data plot  (glitchplot.py, 768-831; raw_data.py, 80-116)            *)
(***************************************************************************)
\* a check that looks at the first sample only
raw_data_gap_first_sample(cropped) ==
    IsNaN(cropped.ifo, cropped.lo)

\* np.isnan(strain_cropped.max().to_value())  (glitchplot.py, 780)
raw_data_gap(cropped) ==
    HasNaN(cropped)

Raw(s) ==
    /\ pc[s] = "raw"
    /\ IF raw_data_gap(v[s].strain_cropped)
       THEN \* raise DataGapError()
            IF Catches(raw_except, "DataGapError")
            THEN /\ out' = [out EXCEPT ![s] = @ \o
                       <<"subheader:raw", "error:gap_raw">>]
                 /\ pc' = [pc EXCEPT ![s] = "flag_lock"]
                 /\ Caught(s, "DataGapError@raw")
            ELSE /\ Uncaught(s, "DataGapError", "DataGapError@raw")
                 /\ out' = [out EXCEPT ![s] = @ \o <<"subheader:raw">>]
       ELSE /\ out' = [out EXCEPT ![s] = @ \o <<"subheader:raw">>]
            /\ pc' = [pc EXCEPT ![s] = "raw_lock"]
            /\ UNCHANGED v
    /\ UNCHANGED <<w, lib, lock, strain_cache, specgram_cache, qgram_cache,
                   gap, libRejects>>

RawPlot(s) ==
    /\ pc[s] = "raw_plot"
    /\ out' = [out EXCEPT ![s] = @ \o <<"figure:raw">>]
    /\ Release(s, "raw")
    /\ pc' = [pc EXCEPT ![s] = after("raw")]
    /\ UNCHANGED <<w, v, lib, strain_cache, specgram_cache, qgram_cache,
                   gap, libRejects>>

\* a handler that does not stop the script
gap_handler_falls_through ==
    "filtered"

\* where the DataGapError handler of the raw section leaves the script:
\* st.stop()  (glitchplot.py, 829)
gap_handler_exit ==
    "stopped"

\* the availability plot of the DataGapError handler, then footer and stop
\* (glitchplot.py, 807-829; available_data.py, 59-94)
FlagPlot(s) ==
    /\ pc[s] = "flag_plot"
    /\ out' = [out EXCEPT ![s] = emit_footer(@ \o <<"figure:flag">>)]
    /\ Release(s, "flag")
    /\ pc' = [pc EXCEPT ![s] = gap_handler_exit]
    /\ UNCHANGED <<w, v, lib, strain_cache, specgram_cache, qgram_cache,
                   gap, libRejects>>

(***************************************************************************)
(* Filtered data plot  (glitchplot.py, 837-897; filtered_data.py, 83-156)  *)
(***************************************************************************)
\* strain_precropped  (glitchplot.py, 743)
strain_precropped(s) ==
    crop(v[s].strain, v[s].t_plotstart - T_PAD, v[s].t_plotend + T_PAD,
         FALSE)

\* a range check that lets an empty range through
filtered_raises_strict(f_range, precropped) ==
    IF f_range[1] > f_range[2] THEN "ZeroFrequencyRangeError"
    ELSE IF HasNaN(precropped) THEN "DataGapError"
    ELSE ""

\* the exception the try block raises before plotting, "" when none:
\* the range check comes first, the NaN check after filtering
filtered_raises(f_range, precropped) ==
    IF f_range[1] >= f_range[2] THEN "ZeroFrequencyRangeError"
    ELSE IF HasNaN(precropped) THEN "DataGapError"
    ELSE ""

\* the library operations of the try block up to the raise or the plot
filtered_calls(f_range, whiten) ==
    IF f_range[1] >= f_range[2] THEN {}
    ELSE IF whiten THEN {"whiten", "bandpass"}
    ELSE {"bandpass"}

Filtered(s) ==
    /\ pc[s] = "filtered"
    /\ IF ~w[s].do_plot
       THEN /\ out' = [out EXCEPT ![s] = @ \o <<"write:skip_filtered">>]
            /\ pc' = [pc EXCEPT ![s] = after("filtered")]
            /\ UNCHANGED <<v, lib>>
       ELSE LET e == filtered_raises(w[s].f_range, strain_precropped(s))
            IN  /\ lib' = [lib EXCEPT ![s] = @ \cup
                       filtered_calls(w[s].f_range, w[s].whiten_plot)]
                /\ IF e = ""
                   THEN /\ out' = [out EXCEPT ![s] = @ \o
                               <<"subheader:filtered">>]
                        /\ pc' = [pc EXCEPT ![s] = "filtered_lock"]
                        /\ UNCHANGED v
                   ELSE IF Catches(filtered_except, e)
                   THEN /\ out' = [out EXCEPT ![s] = @ \o
                               <<"subheader:filtered",
                                 IF e = "DataGapError"
                                 THEN "error:gap_filtered"
                                 ELSE "warning:zero_range">>]
                        /\ pc' = [pc EXCEPT ![s] = after("filtered")]
                        /\ Caught(s, IF e = "DataGapError"
                                     THEN "DataGapError@filtered"
                                     ELSE "ZeroFrequencyRangeError@filtered")
                   ELSE /\ Uncaught(s, e,
                                    IF e = "DataGapError"
                                    THEN "DataGapError@filtered"
                                    ELSE "ZeroFrequencyRangeError@filtered")
                        /\ out' = [out EXCEPT ![s] = @ \o
                               <<"subheader:filtered">>]
    /\ UNCHANGED <<w, lock, strain_cache, specgram_cache, qgram_cache,
                   gap, libRejects>>

FilteredPlot(s) ==
    /\ pc[s] = "filtered_plot"
    /\ out' = [out EXCEPT ![s] = @ \o
           IF w[s].f_range[1] < calib_freqs_low(w[s].interferometer)
           THEN <<"figure:filtered", "warning:calib_filtered">>
           ELSE <<"figure:filtered">>]
    /\ Release(s, "filtered")
    /\ pc' = [pc EXCEPT ![s] = after("filtered")]
    /\ UNCHANGED <<w, v, lib, strain_cache, specgram_cache, qgram_cache,
                   gap, libRejects>>


(***************************************************************************)
(* ASD spectrum  (glitchplot.py, 903-992; asd_spectrum.py, 105-199)        *)
(***************************************************************************)
\* the background window: strain.crop(t_plotstart + offset, ...)
strain_bgnd(s) ==
    crop(v[s].strain, v[s].t_plotstart + w[s].asd_offset,
         v[s].t_plotend + w[s].asd_offset, FALSE)

Asd(s) ==
    /\ pc[s] = "asd"
    /\ IF ~w[s].do_show_asd
       THEN /\ out' = [out EXCEPT ![s] = @ \o <<"write:skip_asd">>]
            /\ pc' = [pc EXCEPT ![s] = after("asd")]
            /\ UNCHANGED <<v, lib>>
       ELSE IF HasNaN(v[s].strain_cropped)
       THEN \* the spectrum is NaN: raise DataGapError()
            /\ lib' = [lib EXCEPT ![s] = @ \cup {"asd"}]
            /\ IF Catches(asd_except, "DataGapError")
               THEN /\ out' = [out EXCEPT ![s] = @ \o
                           <<"subheader:asd", "error:gap_asd">>]
                    /\ pc' = [pc EXCEPT ![s] = after("asd")]
                    /\ Caught(s, "DataGapError@asd")
               ELSE /\ Uncaught(s, "DataGapError", "DataGapError@asd")
                    /\ out' = [out EXCEPT ![s] = @ \o <<"subheader:asd">>]
       ELSE /\ lib' = [lib EXCEPT ![s] = @ \cup
                   (IF w[s].asd_offset = 0 THEN {"asd"}
                    ELSE {"asd", "asd_bgnd"})]
            /\ v' = [v EXCEPT ![s].asd_bgnd_warning =
                   w[s].asd_offset # 0 /\ HasNaN(strain_bgnd(s))]
            /\ out' = [out EXCEPT ![s] = @ \o <<"subheader:asd">>]
            /\ pc' = [pc EXCEPT ![s] = "asd_lock"]
    /\ UNCHANGED <<w, lock, strain_cache, specgram_cache, qgram_cache,
                   gap, libRejects>>

AsdPlot(s) ==
    /\ pc[s] = "asd_plot"
    /\ out' = [out EXCEPT ![s] = @ \o <<"figure:asd">> \o
           (IF w[s].asd_f_range[1] < calib_freqs_low(w[s].interferometer)
            THEN <<"warning:calib_asd">> ELSE <<>>) \o
           (IF v[s].asd_bgnd_warning
            THEN <<"warning:asd_bgnd">> ELSE <<>>)]
    /\ Release(s, "asd")
    /\ pc' = [pc EXCEPT ![s] = after("asd")]
    /\ UNCHANGED <<w, v, lib, strain_cache, specgram_cache, qgram_cache,
                   gap, libRejects>>

(***************************************************************************)
(* Spectrogram  (glitchplot.py, 998-1045; spectrogram.py, 114-167)         *)
(***************************************************************************)
Spec_(s) ==
    /\ pc[s] = "spec"
    /\ IF ~w[s].do_spec
       THEN /\ out' = [out EXCEPT ![s] = @ \o <<"write:skip_spec">>]
            /\ pc' = [pc EXCEPT ![s] = after("spec")]
            /\ UNCHANGED <<v, lib, specgram_cache>>
       ELSE LET key == make_specgram_key(v[s].desc, v[s].t_plotstart,
                           v[s].t_plotend, spec_stride(w[s].t_width),
                           spec_overlap(w[s].t_width))
                hit == Cached(specgram_cache, "make_specgram", key)
                fresh == make_specgram(v[s].strain_cropped,
                                       spec_stride(w[s].t_width),
                                       spec_overlap(w[s].t_width))
            IN  /\ IF hit # {}
                   THEN /\ \E e \in hit :
                             v' = [v EXCEPT ![s].specgram = e.value]
                        /\ UNCHANGED <<lib, specgram_cache>>
                   ELSE /\ v' = [v EXCEPT ![s].specgram = fresh]
                        /\ lib' = [lib EXCEPT ![s] = @ \cup {"spectrogram"}]
                        /\ specgram_cache' \in
                              Stored(specgram_cache,
                                     [fn |-> "make_specgram", key |-> key,
                                      value |-> fresh])
                /\ out' = [out EXCEPT ![s] = @ \o <<"subheader:spec">>]
                /\ pc' = [pc EXCEPT ![s] = "spec_lock"]
    /\ UNCHANGED <<w, lock, strain_cache, qgram_cache, gap, libRejects>>

SpecPlot(s) ==
    /\ pc[s] = "spec_plot"
    /\ out' = [out EXCEPT ![s] = @ \o <<"figure:spec">>]
    /\ Release(s, "spec")
    /\ pc' = [pc EXCEPT ![s] = after("spec")]
    /\ UNCHANGED <<w, v, lib, strain_cache, specgram_cache, qgram_cache,
                   gap, libRejects>>


(***************************************************************************)
(* Q-transform  (glitchplot.py, 1051-1112; q_transform.py, 57-123 and      *)
(* 184-250)                                                                *)
(***************************************************************************)
qtsf_key(s) ==
    transform_strain_key(v[s].desc, v[s].t_plotstart, v[s].t_plotend,
                         T_PAD, w[s].q0, w[s].whiten_qtsf)

\* the call of transform_strain: a cached result is replayed, otherwise
\* the body starts with q_warning = 0
Qtsf(s) ==
    /\ pc[s] = "qtsf"
    /\ IF ~w[s].do_qtsf
       THEN /\ out' = [out EXCEPT ![s] = @ \o <<"write:skip_qtsf">>]
            /\ pc' = [pc EXCEPT ![s] = after("qtsf")]
            /\ UNCHANGED v
       ELSE LET hit == Cached(qgram_cache, "transform_strain", qtsf_key(s))
            IN  /\ out' = [out EXCEPT ![s] = @ \o <<"subheader:qtsf">>]
                /\ IF hit # {}
                   THEN /\ \E e \in hit :
                             v' = [v EXCEPT
                                    ![s].q_gram = e.value.q_gram,
                                    ![s].q_warning = e.value.q_warning,
                                    ![s].q_error = FALSE]
                        /\ pc' = [pc EXCEPT ![s] = "q_after"]
                   ELSE /\ v' = [v EXCEPT ![s].tq_warning = 0]
                        /\ pc' = [pc EXCEPT ![s] = "q_try1"]
    /\ UNCHANGED <<w, lib, lock, strain_cache, specgram_cache, qgram_cache,
                   gap, libRejects>>

TryAt(k) ==
    IF k = 1 THEN "q_try1" ELSE IF k = 2 THEN "q_try2" ELSE "q_try3"

\* the k-th q_transform attempt of the body of transform_strain, with the
\* return to, or the raise into, the call site
QTry(s, k) ==
    /\ pc[s] = TryAt(k)
    /\ LET cropped == attempt_crop(k, v[s].strain, v[s].desc,
                          v[s].t_plotstart, v[s].t_plotend, T_PAD)
           fduration == attempt_fduration(k, T_PAD)
           raises == QtRaises(cropped, v[s].t_plotstart, fduration)
           q_gram == q_transform(cropped, v[s].t_plotstart, v[s].t_plotend,
                         w[s].q0, fres(w[s].q0, v[s].desc.sample_rate),
                         w[s].whiten_qtsf, fduration)
           tried == Append(v[s].attempts,
                           [k |-> k, lo |-> cropped.lo, hi |-> cropped.hi,
                            fduration |-> fduration, raised |-> raises])
       IN  IF ~raises
           THEN \* return (q_gram, q_warning)
                /\ v' = [v EXCEPT ![s].attempts = tried,
                                  ![s].q_gram = q_gram,
                                  ![s].q_warning = v[s].tq_warning,
                                  ![s].q_error = FALSE]
                /\ qgram_cache' \in
                      Stored(qgram_cache,
                             [fn |-> "transform_strain", key |-> qtsf_key(s),
                              value |-> [q_gram |-> q_gram,
                                         q_warning |-> v[s].tq_warning]])
                /\ pc' = [pc EXCEPT ![s] = "q_after"]
           ELSE IF k < 3
           THEN \* except ValueError: q_warning = k, then the next attempt
                /\ v' = [v EXCEPT ![s].attempts = tried,
                                  ![s].tq_warning = q_warning_after(k)]
                /\ pc' = [pc EXCEPT ![s] = TryAt(k + 1)]
                /\ UNCHANGED qgram_cache
           ELSE \* the ValueError of the last attempt leaves transform_strain
                /\ UNCHANGED qgram_cache
                /\ IF Catches(qtsf_except, "ValueError")
                   THEN /\ v' = [v EXCEPT
                                    ![s].attempts = tried,
                                    ![s].raised = k,
                                    ![s].raises = @ \cup
                                        {"ValueError@transform_strain"},
                                    ![s].q_warning = 0,
                                    ![s].q_error = TRUE]
                        /\ pc' = [pc EXCEPT ![s] = "q_after"]
                   ELSE /\ v' = [v EXCEPT
                                    ![s].attempts = tried,
                                    ![s].raised = k,
                                    ![s].raises = @ \cup
                                        {"ValueError@transform_strain"},
                                    ![s].exc = "ValueError"]
                        /\ pc' = [pc EXCEPT ![s] = "uncaught"]
    /\ lib' = [lib EXCEPT ![s] = @ \cup {"q_transform"}]
    /\ UNCHANGED <<w, out, lock, strain_cache, specgram_cache,
                   gap, libRejects>>

QTry1(s) ==
    QTry(s, 1)

QTry2(s) ==
    QTry(s, 2)

QTry3(s) ==
    QTry(s, 3)

\* if q_error: st.error(...), no plot
QAfter(s) ==
    /\ pc[s] = "q_after"
    /\ IF v[s].q_error
       THEN /\ out' = [out EXCEPT ![s] = @ \o <<"error:qtsf">>]
            /\ pc' = [pc EXCEPT ![s] = after("qtsf")]
       ELSE /\ pc' = [pc EXCEPT ![s] = "qtsf_lock"]
            /\ UNCHANGED out
    /\ UNCHANGED <<w, v, lib, lock, strain_cache, specgram_cache,
                   qgram_cache, gap, libRejects>>

\* the caveat shown under the figure for q_warning > 0
q_caveat(q_warning) ==
    IF q_warning = 0 THEN <<>>
    ELSE IF q_warning = 1 THEN <<"warning:q_caveat_far">>
    ELSE <<"warning:q_caveat">>

QPlot(s) ==
    /\ pc[s] = "qtsf_plot"
    /\ out' = [out EXCEPT ![s] = @ \o <<"figure:qtsf">> \o
                                     q_caveat(v[s].q_warning)]
    /\ Release(s, "qtsf")
    /\ pc' = [pc EXCEPT ![s] = after("qtsf")]
    /\ UNCHANGED <<w, v, lib, strain_cache, specgram_cache, qgram_cache,
                   gap, libRejects>>

(***************************************************************************)
(* End game  (glitchplot.py, 1118)                                         *)
(***************************************************************************)
Footer(s) ==
    /\ pc[s] = "footer"
    /\ out' = [out EXCEPT ![s] = emit_footer(@)]
    /\ pc' = [pc EXCEPT ![s] = "done"]
    /\ UNCHANGED <<w, v, lib, lock, strain_cache, specgram_cache,
                   qgram_cache, gap, libRejects>>

(***************************************************************************)
(* The plot methods of gwogv_util, called on loaded data.  The caller is   *)
(* at "raw" once the data are loaded, and at "m_..._returned" or           *)
(* "m_..._raised" when a method has returned to it or raised into it; each *)
(* call starts a page and a call log of its own.                           *)
(***************************************************************************)
CallerAt ==
    {"raw", "m_raw_returned", "m_raw_raised", "m_filtered_returned",
     "m_filtered_raised", "m_asd_returned", "m_asd_raised"}

\* a handler of plot_raw_data that ends without raise
plot_raw_data_swallows ==
    FALSE

\* the DataGapError handler of plot_raw_data ends with raise
\* (raw_data.py, 116)
plot_raw_data_reraises ==
    TRUE

plot_raw_data_except ==
    {"DataGapError"}

plot_filtered_data_except ==
    {"DataGapError", "ZeroFrequencyRangeError"}

plot_asd_spectrum_except ==
    {"DataGapError"}

\* the caller enters a method
Called(s) ==
    /\ pc[s] \in CallerAt
    /\ v[s].strain # NoSeries

\* RawData.plot_raw_data up to the with block  (raw_data.py, 58-116)
plot_raw_data(s) ==
    /\ Called(s)
    /\ lib' = [lib EXCEPT ![s] = {}]
    /\ IF raw_data_gap(v[s].strain_cropped)
       THEN \* raise DataGapError()
            IF Catches(plot_raw_data_except, "DataGapError")
            THEN /\ out' = [out EXCEPT ![s] = <<"error:gap_raw">>]
                 /\ IF plot_raw_data_reraises
                    THEN /\ pc' = [pc EXCEPT ![s] = "m_raw_raised"]
                         /\ v' = [v EXCEPT
                                ![s].exc = "DataGapError",
                                ![s].raises = {"DataGapError@plot_raw_data"}]
                    ELSE /\ pc' = [pc EXCEPT ![s] = "m_raw_returned"]
                         /\ v' = [v EXCEPT
                                ![s].exc = "",
                                ![s].raises = {"DataGapError@plot_raw_data"}]
            ELSE /\ out' = [out EXCEPT ![s] = <<>>]
                 /\ pc' = [pc EXCEPT ![s] = "m_raw_raised"]
                 /\ v' = [v EXCEPT
                        ![s].exc = "DataGapError",
                        ![s].raises = {"DataGapError@plot_raw_data"}]
       ELSE /\ out' = [out EXCEPT ![s] = <<>>]
            /\ pc' = [pc EXCEPT ![s] = "m_raw_lock"]
            /\ v' = [v EXCEPT ![s].exc = "", ![s].raises = {}]
    /\ UNCHANGED <<w, lock, strain_cache, specgram_cache, qgram_cache,
                   gap, libRejects>>

\* the site of an exception the try block of plot_filtered_data raises
filtered_site(e) ==
    IF e = "DataGapError" THEN "DataGapError@plot_filtered_data"
    ELSE "ZeroFrequencyRangeError@plot_filtered_data"

\* FilteredData.plot_filtered_data up to the with block
\* (filtered_data.py, 72-156)
plot_filtered_data(s) ==
    /\ Called(s)
    /\ LET e == filtered_raises(w[s].f_range, strain_precropped(s))
       IN  /\ lib' = [lib EXCEPT ![s] =
                  filtered_calls(w[s].f_range, w[s].whiten_plot)]
           /\ IF e = ""
              THEN /\ out' = [out EXCEPT ![s] = <<>>]
                   /\ pc' = [pc EXCEPT ![s] = "m_filtered_lock"]
                   /\ v' = [v EXCEPT ![s].exc = "", ![s].raises = {}]
              ELSE IF Catches(plot_filtered_data_except, e)
              THEN /\ out' = [out EXCEPT ![s] =
                          <<IF e = "DataGapError" THEN "error:gap_filtered"
                            ELSE "warning:zero_range">>]
                   /\ pc' = [pc EXCEPT ![s] = "m_filtered_returned"]
                   /\ v' = [v EXCEPT ![s].exc = "",
                                     ![s].raises = {filtered_site(e)}]
              ELSE /\ out' = [out EXCEPT ![s] = <<>>]
                   /\ pc' = [pc EXCEPT ![s] = "m_filtered_raised"]
                   /\ v' = [v EXCEPT ![s].exc = e,
                                     ![s].raises = {filtered_site(e)}]
    /\ UNCHANGED <<w, lock, strain_cache, specgram_cache, qgram_cache,
                   gap, libRejects>>

\* ASDSpectrum.plot_asd_spectrum up to the with block
\* (asd_spectrum.py, 82-199)
plot_asd_spectrum(s) ==
    /\ Called(s)
    /\ IF HasNaN(v[s].strain_cropped)
       THEN \* the spectrum is NaN: raise DataGapError()
            /\ lib' = [lib EXCEPT ![s] = {"asd"}]
            /\ IF Catches(plot_asd_spectrum_except, "DataGapError")
               THEN /\ out' = [out EXCEPT ![s] = <<"error:gap_asd">>]
                    /\ pc' = [pc EXCEPT ![s] = "m_asd_returned"]
                    /\ v' = [v EXCEPT
                           ![s].exc = "",
                           ![s].raises = {"DataGapError@plot_asd_spectrum"}]
               ELSE /\ out' = [out EXCEPT ![s] = <<>>]
                    /\ pc' = [pc EXCEPT ![s] = "m_asd_raised"]
                    /\ v' = [v EXCEPT
                           ![s].exc = "DataGapError",
                           ![s].raises = {"DataGapError@plot_asd_spectrum"}]
       ELSE /\ lib' = [lib EXCEPT ![s] =
                   IF w[s].asd_offset = 0 THEN {"asd"}
                   ELSE {"asd", "asd_bgnd"}]
            /\ v' = [v EXCEPT
                   ![s].exc = "", ![s].raises = {},
                   ![s].asd_bgnd_warning =
                       w[s].asd_offset # 0 /\ HasNaN(strain_bgnd(s))]
            /\ out' = [out EXCEPT ![s] = <<>>]
            /\ pc' = [pc EXCEPT ![s] = "m_asd_lock"]
    /\ UNCHANGED <<w, lock, strain_cache, specgram_cache, qgram_cache,
                   gap, libRejects>>

MethodWaiting ==
    {"m_raw_lock", "m_filtered_lock", "m_asd_lock"}

MethodPlotting ==
    {"m_raw_plot", "m_filtered_plot", "m_asd_plot"}

\* the section a method plots
MethodSection(p) ==
    IF p \in {"m_raw_lock", "m_raw_plot"} THEN "raw"
    ELSE IF p \in {"m_filtered_lock", "m_filtered_plot"} THEN "filtered"
    ELSE "asd"

\* with _lock: of a method
MethodAcquire(s) ==
    /\ pc[s] \in MethodWaiting
    /\ lock[_lock(MethodSection(pc[s]))] = 0
    /\ lock' = [lock EXCEPT ![_lock(MethodSection(pc[s]))] = s]
    /\ pc' = [pc EXCEPT ![s] =
           IF pc[s] = "m_raw_lock" THEN "m_raw_plot"
           ELSE IF pc[s] = "m_filtered_lock" THEN "m_filtered_plot"
           ELSE "m_asd_plot"]
    /\ UNCHANGED <<w, v, out, lib, strain_cache, specgram_cache, qgram_cache,
                   gap, libRejects>>

\* the with block of plot_raw_data  (raw_data.py, 84-108)
plot_raw_data_figure(s) ==
    /\ pc[s] = "m_raw_plot"
    /\ out' = [out EXCEPT ![s] = @ \o <<"figure:raw">>]
    /\ Release(s, "raw")
    /\ pc' = [pc EXCEPT ![s] = "m_raw_returned"]
    /\ UNCHANGED <<w, v, lib, strain_cache, specgram_cache, qgram_cache,
                   gap, libRejects>>

\* the with block of plot_filtered_data  (filtered_data.py, 119-148)
plot_filtered_data_figure(s) ==
    /\ pc[s] = "m_filtered_plot"
    /\ out' = [out EXCEPT ![s] = @ \o
           IF w[s].f_range[1] < calib_freqs_low(w[s].interferometer)
           THEN <<"figure:filtered", "warning:calib_filtered">>
           ELSE <<"figure:filtered">>]
    /\ Release(s, "filtered")
    /\ pc' = [pc EXCEPT ![s] = "m_filtered_returned"]
    /\ UNCHANGED <<w, v, lib, strain_cache, specgram_cache, qgram_cache,
                   gap, libRejects>>

\* the with block of plot_asd_spectrum  (asd_spectrum.py, 127-190)
plot_asd_spectrum_figure(s) ==
    /\ pc[s] = "m_asd_plot"
    /\ out' = [out EXCEPT ![s] = @ \o <<"figure:asd">> \o
           (IF w[s].asd_f_range[1] < calib_freqs_low(w[s].interferometer)
            THEN <<"warning:calib_asd">> ELSE <<>>) \o
           (IF v[s].asd_bgnd_warning
            THEN <<"warning:asd_bgnd">> ELSE <<>>)]
    /\ Release(s, "asd")
    /\ pc' = [pc EXCEPT ![s] = "m_asd_returned"]
    /\ UNCHANGED <<w, v, lib, strain_cache, specgram_cache, qgram_cache,
                   gap, libRejects>>

(***************************************************************************)
(* Worlds and initial states                                               *)
(***************************************************************************)
NoGap ==
    [lo |-> 0, hi |-> 0]

\* a gap of 60 s that begins d seconds after the initial timestamp
GapAfter(d) ==
    [lo |-> INITIAL_T0_GPS + Sec(d), hi |-> INITIAL_T0_GPS + Sec(d + 60)]

\* no gap; a gap inside every plotted interval; one that begins with the
\* last sample of the default interval; one that begins T_PAD past it
Gaps ==
    {NoGap, GapAfter(0), GapAfter(2), GapAfter(10)}

PadClasses ==
    {"wide", "tight", "bare"}

\* the timestamps a user enters, 41.3 s apart
T0s ==
    {T0Text(TRUE, INITIAL_T0_GPS + k * 3304) : k \in -NPan .. NPan}

Typo ==
    T0Text(FALSE, 0)

\* session 1 opens the page with one of the given widget states, the
\* other sessions with one of others
Start(widgets, others) ==
    /\ pc = [s \in Sessions |-> "idle"]
    /\ w \in {[s \in Sessions |-> IF s = 1 THEN mine ELSE theirs] :
                 mine \in widgets, theirs \in others}
    /\ v = [s \in Sessions |-> FreshVars]
    /\ out = [s \in Sessions |-> <<>>]
    /\ lib = [s \in Sessions |-> {}]
    /\ lock = [l \in Locks |-> 0]
    /\ strain_cache = {}
    /\ specgram_cache = {}
    /\ qgram_cache = {}

\* the steps of a running script
Step(s) ==
    \/ Prepare(s)
    \/ Load(s)
    \/ Raw(s)
    \/ Acquire(s)
    \/ RawPlot(s)
    \/ FlagPlot(s)
    \/ Filtered(s)
    \/ FilteredPlot(s)
    \/ Asd(s)
    \/ AsdPlot(s)
    \/ Spec_(s)
    \/ SpecPlot(s)
    \/ Qtsf(s)
    \/ QTry1(s)
    \/ QTry2(s)
    \/ QTry3(s)
    \/ QAfter(s)
    \/ QPlot(s)
    \/ Footer(s)

(***************************************************************************)
(* Spec: one session working through the five forms                        *)
(***************************************************************************)
Init ==
    /\ Start({DefaultWidgets}, {DefaultWidgets})
    /\ gap \in Gaps
    /\ libRejects \in {{}, {"wide"}, PadClasses}

Next ==
    \/ Visit(1)
    \/ SubmitLoad(1, {"L1"}, {INITIAL_WIDTH, 5120},
                  {T0Text(TRUE, INITIAL_T0_GPS), Typo}, {FALSE}, {LOW_RATE})
    \/ SubmitPlot(1, {f_initial_range, <<951, 951>>}, BOOLEAN)
    \/ SubmitAsd(1, {f_initial_range}, {0, 960})
    \/ SubmitSpec(1)
    \/ SubmitQtsf(1, {INITIAL_Q}, {TRUE})
    \/ Step(1)

Spec ==
    Init /\ [][Next]_vars


(***************************************************************************)
(* SpecRun: Spec with a script thread that takes a step whenever it can.   *)
(***************************************************************************)
SpecRun ==
    Init /\ [][Next]_vars /\ WF_vars(Step(1))

(***************************************************************************)
(* SpecQ: single runs of the script over many inputs and libraries, with   *)
(* the filtered, ASD and spectrogram sections switched off.  A script      *)
(* thread that can take a step does take it.                               *)
(***************************************************************************)
QWidgets ==
    {[DefaultWidgets EXCEPT !.t0_text = t0_text, !.t_width = t_width,
                            !.sample_rate = rate,
                            !.cache_wide_blocks = wide,
                            !.q0 = q, !.whiten_qtsf = whiten] :
        t0_text \in T0s, t_width \in {10, INITIAL_WIDTH, 5120},
        rate \in sample_rates, wide \in BOOLEAN,
        q \in {INITIAL_Q, 6400}, whiten \in BOOLEAN}

InitQ ==
    /\ Start(QWidgets, {DefaultWidgets})
    /\ gap \in Gaps
    /\ libRejects \in SUBSET PadClasses

NextQ ==
    \/ Visit(1)
    \/ Prepare(1)
    \/ Load(1)
    \/ Raw(1)
    \/ Acquire(1)
    \/ RawPlot(1)
    \/ FlagPlot(1)
    \/ Filtered(1)
    \/ Asd(1)
    \/ Spec_(1)
    \/ Qtsf(1)
    \/ QTry1(1)
    \/ QTry2(1)
    \/ QTry3(1)
    \/ QAfter(1)
    \/ QPlot(1)
    \/ Footer(1)

SpecQ ==
    InitQ /\ [][NextQ]_vars /\ WF_vars(NextQ)


(***************************************************************************)
(* SpecLock: every session runs the script once, all sections switched on, *)
(* in any interleaving.                                                    *)
(***************************************************************************)
AllOn ==
    [DefaultWidgets EXCEPT !.do_plot = TRUE, !.do_show_asd = TRUE,
                           !.do_spec = TRUE]

\* archive and library: all is well; the library refuses padded windows;
\* the plotted interval lies in a gap
LockWorlds ==
    {<<NoGap, {}>>, <<NoGap, {"wide", "tight"}>>, <<GapAfter(0), {}>>}

InitLock ==
    /\ Start({AllOn}, {AllOn})
    /\ \E world \in LockWorlds :
          /\ gap = world[1]
          /\ libRejects = world[2]

NextLock ==
    \E s \in Sessions : Visit(s) \/ Step(s)

SpecLock ==
    InitLock /\ [][NextLock]_vars

(***************************************************************************)
(* SpecRelease: sessions whose plotting code may raise inside a with       *)
(* block, and which may plot their raw data through RawData.plot_raw_data, *)
(* any number of times.  A thread that can take a step                     *)
(* does take it, and a thread that finds the lock free again and again     *)
(* does get it.                                                            *)
(***************************************************************************)
\* a lock taken with acquire() and not released when the body raises
LockKeptOnRaise(s, section) ==
    UNCHANGED lock

\* the with statement calls _lock.__exit__ when its body raises
ReleaseOnRaise(s, section) ==
    Release(s, section)

\* the plotting code of a section of the script raises inside with _lock:
\* no handler of the script catches what matplotlib raises
PlotRaises(s) ==
    /\ pc[s] \in Plotting
    /\ ReleaseOnRaise(s, SectionOf(pc[s]))
    /\ Uncaught(s, "RuntimeError", "RuntimeError@plot")
    /\ UNCHANGED <<w, out, lib, strain_cache, specgram_cache, qgram_cache,
                   gap, libRejects>>

\* the plotting code of plot_raw_data raises inside with _lock: the handler
\* of DataGapError lets it pass to the caller  (raw_data.py, 84-116)
plot_raw_data_raises(s) ==
    /\ pc[s] = "m_raw_plot"
    /\ ReleaseOnRaise(s, "raw")
    /\ pc' = [pc EXCEPT ![s] = "m_raw_raised"]
    /\ v' = [v EXCEPT ![s].exc = "RuntimeError",
                      ![s].raises = {"RuntimeError@plot_raw_data"}]
    /\ UNCHANGED <<w, out, lib, strain_cache, specgram_cache, qgram_cache,
                   gap, libRejects>>

\* the steps of a thread in plot_raw_data
MethodStep(s) ==
    \/ plot_raw_data(s)
    \/ MethodAcquire(s)
    \/ plot_raw_data_figure(s)

\* session 1 has every section switched on, the others plot their raw
\* data only
InitRelease ==
    /\ Start({AllOn}, {[DefaultWidgets EXCEPT !.do_qtsf = FALSE]})
    /\ \E world \in LockWorlds :
          /\ gap = world[1]
          /\ libRejects = world[2]

NextRelease ==
    \E s \in Sessions :
        \/ Visit(s)
        \/ Step(s)
        \/ MethodStep(s)
        \/ PlotRaises(s)
        \/ plot_raw_data_raises(s)

SpecRelease ==
    /\ InitRelease
    /\ [][NextRelease]_vars
    /\ \A s \in Sessions :
          /\ WF_vars(Step(s) \/ MethodStep(s))
          /\ SF_vars(Acquire(s) \/ MethodAcquire(s))

(***************************************************************************)
(* SpecCache: one session changing the plotted width, with spectrogram and *)
(* Q-transform switched on; more widths than the caches have entries.      *)
(***************************************************************************)
CacheWidths ==
    {10, 160, INITIAL_WIDTH, 640, 5120}

InitCache ==
    /\ Start({[DefaultWidgets EXCEPT !.do_spec = TRUE]}, {DefaultWidgets})
    /\ gap \in {NoGap, GapAfter(2)}
    /\ libRejects = {}

NextCache ==
    \/ Visit(1)
    \/ SubmitLoad(1, {"L1"}, CacheWidths, {T0Text(TRUE, INITIAL_T0_GPS)},
                  {FALSE}, {LOW_RATE})
    \/ Prepare(1)
    \/ Load(1)
    \/ Raw(1)
    \/ Acquire(1)
    \/ RawPlot(1)
    \/ FlagPlot(1)
    \/ Filtered(1)
    \/ Asd(1)
    \/ Spec_(1)
    \/ SpecPlot(1)
    \/ Qtsf(1)
    \/ QTry1(1)
    \/ QTry2(1)
    \/ QTry3(1)
    \/ QAfter(1)
    \/ QPlot(1)
    \/ Footer(1)

SpecCache ==
    InitCache /\ [][NextCache]_vars

(***************************************************************************)
(* SpecLoad: one session reloading at the high sample rate with other      *)
(* timestamps, widths and block sizes, and changing the filtered plot;     *)
(* more blocks than load_high_rate_strain keeps.                           *)
(***************************************************************************)
InitLoad ==
    /\ Start({[DefaultWidgets EXCEPT !.do_qtsf = FALSE]}, {DefaultWidgets})
    /\ gap = NoGap
    /\ libRejects = {}

NextLoad ==
    \/ Visit(1)
    \/ SubmitLoad(1, {"L1"}, {INITIAL_WIDTH, 5120}, T0s, BOOLEAN,
                  {HIGH_RATE})
    \/ SubmitPlot(1, {f_initial_range}, {TRUE})
    \/ Prepare(1)
    \/ Load(1)
    \/ Raw(1)
    \/ Acquire(1)
    \/ RawPlot(1)
    \/ Filtered(1)
    \/ FilteredPlot(1)
    \/ Asd(1)
    \/ Spec_(1)
    \/ Qtsf(1)
    \/ Footer(1)

SpecLoad ==
    InitLoad /\ [][NextLoad]_vars

(***************************************************************************)
(* SpecPan: the page opens at INITIAL_T0_GPS with blocks of 32 s; the user *)
(* pans the timestamp by up to three seconds, in steps of half a second,   *)
(* and loads again.                                                        *)
(***************************************************************************)
PanT0s ==
    {T0Text(TRUE, INITIAL_T0_GPS + k * (Sec(1) \div 2)) : k \in -6 .. 6}

InitPan ==
    /\ Start({[DefaultWidgets EXCEPT !.do_qtsf = FALSE]}, {DefaultWidgets})
    /\ gap = NoGap
    /\ libRejects = {}

NextPan ==
    \/ Visit(1)
    \/ SubmitLoad(1, {"L1"}, t_widths, PanT0s, {FALSE}, sample_rates)
    \/ Prepare(1)
    \/ Load(1)
    \/ Raw(1)
    \/ Acquire(1)
    \/ RawPlot(1)
    \/ Filtered(1)
    \/ Asd(1)
    \/ Spec_(1)
    \/ Qtsf(1)
    \/ Footer(1)

SpecPan ==
    InitPan /\ [][NextPan]_vars

(***************************************************************************)
(* SpecAsd: single runs with the ASD section switched on, over a grid of   *)
(* timestamps, every width, every background offset and both block sizes.  *)
(***************************************************************************)
AsdT0s ==
    {T0Text(TRUE, INITIAL_T0_GPS + k * 56) :
        k \in -(NGrid \div 4) .. NGrid \div 4}

AsdWidgets ==
    {[DefaultWidgets EXCEPT !.t0_text = t0_text, !.t_width = t_width,
                            !.cache_wide_blocks = wide,
                            !.do_show_asd = TRUE, !.asd_offset = offset,
                            !.do_qtsf = FALSE] :
        t0_text \in AsdT0s, t_width \in t_widths, wide \in BOOLEAN,
        offset \in asd_offsets}

InitAsd ==
    /\ Start(AsdWidgets, {DefaultWidgets})
    /\ gap = NoGap
    /\ libRejects = {}

NextAsd ==
    \/ Visit(1)
    \/ Prepare(1)
    \/ Load(1)
    \/ Raw(1)
    \/ Acquire(1)
    \/ RawPlot(1)
    \/ Filtered(1)
    \/ Asd(1)
    \/ AsdPlot(1)
    \/ Spec_(1)
    \/ Qtsf(1)
    \/ Footer(1)

SpecAsd ==
    InitAsd /\ [][NextAsd]_vars

(***************************************************************************)
(* SpecGrid: single runs over a dense grid of timestamps, every width,     *)
(* both sample rates and block sizes, with a library that refuses every    *)
(* window, so that each run makes all three attempts.                      *)
(***************************************************************************)
GridT0s ==
    {T0Text(TRUE, INITIAL_T0_GPS + k * 56) : k \in -NGrid .. NGrid}

GridWidgets ==
    {[DefaultWidgets EXCEPT !.t0_text = t0_text, !.t_width = t_width,
                            !.sample_rate = rate,
                            !.cache_wide_blocks = wide] :
        t0_text \in GridT0s, t_width \in t_widths,
        rate \in sample_rates, wide \in BOOLEAN}

InitGrid ==
    /\ Start(GridWidgets, {DefaultWidgets})
    /\ gap = NoGap
    /\ libRejects = PadClasses

NextGrid ==
    \/ Visit(1)
    \/ Prepare(1)
    \/ Load(1)
    \/ Raw(1)
    \/ Acquire(1)
    \/ RawPlot(1)
    \/ Filtered(1)
    \/ Asd(1)
    \/ Spec_(1)
    \/ Qtsf(1)
    \/ QTry1(1)
    \/ QTry2(1)
    \/ QTry3(1)
    \/ QAfter(1)
    \/ Footer(1)

SpecGrid ==
    InitGrid /\ [][NextGrid]_vars

(***************************************************************************)
(* SpecMethods: the data are loaded as the script loads them, then the     *)
(* plot methods of gwogv_util are called on them, in any order.            *)
(***************************************************************************)
MethodWidgets ==
    {[DefaultWidgets EXCEPT !.t_width = t_width, !.f_range = f_range,
                            !.whiten_plot = whiten,
                            !.asd_offset = offset] :
        t_width \in {INITIAL_WIDTH, 5120},
        f_range \in {f_initial_range, <<951, 951>>},
        whiten \in BOOLEAN, offset \in {0, 960}}

InitMethods ==
    /\ Start(MethodWidgets, {DefaultWidgets})
    /\ gap \in Gaps
    /\ libRejects = {}

NextMethods ==
    \/ Visit(1)
    \/ Prepare(1)
    \/ Load(1)
    \/ plot_raw_data(1)
    \/ plot_filtered_data(1)
    \/ plot_asd_spectrum(1)
    \/ MethodAcquire(1)
    \/ plot_raw_data_figure(1)
    \/ plot_filtered_data_figure(1)
    \/ plot_asd_spectrum_figure(1)

SpecMethods ==
    InitMethods /\ [][NextMethods]_vars

(***************************************************************************)
(* Claims                                                                  *)
(***************************************************************************)
Range(seq) ==
    {seq[i] : i \in 1 .. Len(seq)}

\* positions of a run at which the call of transform_strain is over
AfterTransform ==
    {"q_after", "qtsf_lock", "qtsf_plot", "footer", "done"}

\* the padding the i-th attempt is to use: min(2.5 * T_PAD, room to the
\* block edges), then T_PAD, then none
ExpectedPadding(s, i) ==
    IF i = 1
    THEN Min3(1600, v[s].desc.t_end - v[s].t_plotend,
              v[s].t_plotstart - v[s].desc.t_start)
    ELSE IF i = 2 THEN 640
    ELSE 0

FallbackOrder(s) ==
    LET a == v[s].attempts
        n == Len(v[s].attempts)
    IN  /\ n <= 3
        /\ \A i \in 1 .. n :
              /\ a[i].k = i
              /\ a[i].lo = v[s].t_plotstart - ExpectedPadding(s, i)
              /\ a[i].hi = v[s].t_plotend + ExpectedPadding(s, i)
        /\ \A i \in 1 .. n - 1 : a[i].raised
        /\ (n > 0 /\ a[n].raised /\ n < 3) => pc[s] = TryAt(n + 1)
        /\ (n > 0 /\ ~a[n].raised) =>
              /\ pc[s] \in AfterTransform
              /\ ~v[s].q_error
              /\ v[s].raised = 0
              /\ v[s].q_gram.lo = a[n].lo
              /\ v[s].q_gram.hi = a[n].hi
              /\ v[s].q_gram.fduration = a[n].fduration
        /\ (n = 3 /\ a[n].raised) => v[s].raised = 3
        /\ v[s].raised # 0 => (n = 3 /\ a[n].raised)

\* C1: transform_strain tries full padding, then T_PAD, then no padding, each
\* attempt only after all earlier ones raised ValueError; the call returns the
\* result of the first attempt that succeeds or raises the error of the third;
\* and every call that starts its body comes to that end.
C1_FallbackEnds ==
    /\ [](\A s \in Sessions : FallbackOrder(s))
    /\ \A s \in Sessions :
          (pc[s] = "q_try1") ~> (pc[s] \in AfterTransform \cup {"uncaught"})

\* two attempts raised and the third one succeeded
C1_Witness ==
    /\ pc[1] = "q_after"
    /\ Len(v[1].attempts) = 3
    /\ v[1].attempts[1].raised
    /\ v[1].attempts[2].raised
    /\ ~v[1].attempts[3].raised

\* the run of session s has passed the call of transform_strain, and the
\* call returned
Returned(s) ==
    /\ pc[s] \in AfterTransform
    /\ "subheader:qtsf" \in Range(out[s])
    /\ ~v[s].q_error

\* the number of attempts of this run that raised
Failures(s) ==
    Cardinality({i \in 1 .. Len(v[s].attempts) : v[s].attempts[i].raised})

\* C2: whenever transform_strain returns (q_gram, q_warning), freshly computed
\* or replayed from the cache, q_gram is the output of attempt q_warning + 1
\* (window of the full padding for 0, of T_PAD for 1, of no padding for 2, with
\* that attempt's fduration); and when the body ran in this run, q_warning is
\* the number of attempts that raised, all of them before the one that
\* succeeded.
C2_WarningCountsFailures ==
    \A s \in Sessions :
        Returned(s) =>
            /\ v[s].q_warning \in {0, 1, 2}
            /\ v[s].q_gram.outlo = v[s].t_plotstart
            /\ v[s].q_gram.outhi = v[s].t_plotend
            /\ v[s].q_gram.lo =
                  v[s].t_plotstart - ExpectedPadding(s, v[s].q_warning + 1)
            /\ v[s].q_gram.hi =
                  v[s].t_plotend + ExpectedPadding(s, v[s].q_warning + 1)
            /\ v[s].q_gram.fduration =
                  (IF v[s].q_warning = 2 THEN 160 ELSE 640)
            /\ v[s].attempts # <<>> =>
                  /\ v[s].q_warning = Failures(s)
                  /\ Len(v[s].attempts) = v[s].q_warning + 1
                  /\ ~v[s].attempts[Len(v[s].attempts)].raised

\* the third attempt succeeded and its figure is being drawn
C2_Witness ==
    /\ pc[1] = "qtsf_plot"
    /\ v[1].q_warning = 2
    /\ Len(v[1].attempts) = 3

\* C3: when all three attempts raise ValueError, the error leaves
\* transform_strain and is caught by the Q-transform section, which shows the
\* 'unable to compute the Q-transform' error, draws no Q-transform figure,
\* shows no padding caveat and goes on to the end of the run.
C3_AllFailHandled ==
    \A s \in Sessions :
        (Len(v[s].attempts) = 3 /\ v[s].attempts[3].raised) =>
            /\ "ValueError@transform_strain" \in v[s].raises
            /\ v[s].raised = 3
            /\ pc[s] \in {"q_after", "footer", "done"}
            /\ v[s].exc = ""
            /\ v[s].q_error
            /\ Range(out[s]) \cap {"figure:qtsf", "warning:q_caveat_far",
                                   "warning:q_caveat"} = {}
            /\ pc[s] \in {"footer", "done"} => "error:qtsf" \in Range(out[s])
            /\ pc[s] = "done" => out[s][Len(out[s])] = "footer"

\* a run that ended after the three attempts failed
C3_Witness ==
    /\ pc[1] = "done"
    /\ Len(v[1].attempts) = 3
    /\ v[1].attempts[3].raised
    /\ "error:qtsf" \in Range(out[1])

\* the message shown for an exception raised at a site
MessageOf(site) ==
    IF site = "DataGapError@raw" THEN "error:gap_raw"
    ELSE IF site = "DataGapError@filtered" THEN "error:gap_filtered"
    ELSE IF site = "DataGapError@asd" THEN "error:gap_asd"
    ELSE "warning:zero_range"

GapAndRangeSites ==
    {"DataGapError@raw", "DataGapError@filtered", "DataGapError@asd",
     "ZeroFrequencyRangeError@filtered"}

\* C4: every DataGapError and ZeroFrequencyRangeError raised in a run of the
\* script is caught by the section that raised it and shown as a message; no
\* run ends with one of them uncaught.
C4_GapAndRangeCaught ==
    \A s \in Sessions :
        /\ v[s].exc \notin {"DataGapError", "ZeroFrequencyRangeError"}
        /\ \A site \in v[s].raises \cap GapAndRangeSites :
              MessageOf(site) \in Range(out[s])

\* a run that raised DataGapError while filtering and went on to its end
C4_Witness ==
    /\ pc[1] = "done"
    /\ "DataGapError@filtered" \in v[1].raises

\* some sample of a series is NaN: if any is, then so is the first sample of
\* the series or the first sample of the gap
ContainsNaN(ts) ==
    \E t \in {ts.lo, gap.lo} :
        /\ ts.lo <= t
        /\ t <= LastTick(ts)
        /\ IsNaN(ts.ifo, t)

PastRaw ==
    {"raw_lock", "raw_plot", "flag_lock", "flag_plot", "filtered",
     "filtered_lock", "filtered_plot", "asd", "asd_lock", "asd_plot", "spec",
     "spec_lock", "spec_plot", "qtsf", "q_try1", "q_try2", "q_try3",
     "q_after", "qtsf_lock", "qtsf_plot", "footer", "done"}

PastRawPlot ==
    PastRaw \ {"raw_lock", "raw_plot", "flag_lock", "flag_plot"}

\* C5: the raw section reports a data gap exactly when the cropped strain it
\* is to plot contains a NaN sample; then no raw figure is drawn; and when no
\* sample is NaN, no DataGapError is raised and the raw figure is drawn.
C5_RawGapIffNaN ==
    \A s \in Sessions :
        ("subheader:raw" \in Range(out[s])) =>
            /\ ("error:gap_raw" \in Range(out[s]))
                  <=> ContainsNaN(v[s].strain_cropped)
            /\ ("DataGapError@raw" \in v[s].raises)
                  <=> ContainsNaN(v[s].strain_cropped)
            /\ ContainsNaN(v[s].strain_cropped) =>
                  /\ "figure:raw" \notin Range(out[s])
                  /\ pc[s] \in {"flag_lock", "flag_plot", "stopped"}
            /\ ~ContainsNaN(v[s].strain_cropped) =>
                  /\ pc[s] \in PastRaw \ {"flag_lock", "flag_plot"}
                  /\ pc[s] \in PastRawPlot => "figure:raw" \in Range(out[s])

\* a run stopped by a gap, its strain NaN in the middle but not at the start
C5_Witness ==
    /\ pc[1] = "stopped"
    /\ "error:gap_raw" \in Range(out[1])
    /\ ~IsNaN(v[1].strain_cropped.ifo, v[1].strain_cropped.lo)

FilteredOutcomes ==
    {"error:gap_filtered", "warning:zero_range", "figure:filtered",
     "warning:calib_filtered"}

\* C6: in the filtered section, limits with lower >= upper raise
\* ZeroFrequencyRangeError before whiten or bandpass is called, no figure is
\* drawn, and under the section heading only the warning 'Please make the
\* frequency range wider.' appears; with lower < upper the band pass is always
\* applied.
C6_ZeroRangeBeforeFilter ==
    \A s \in Sessions :
        ("subheader:filtered" \in Range(out[s])) =>
            IF w[s].f_range[1] >= w[s].f_range[2]
            THEN /\ "ZeroFrequencyRangeError@filtered" \in v[s].raises
                 /\ lib[s] \cap {"whiten", "bandpass"} = {}
                 /\ Range(out[s]) \cap FilteredOutcomes
                       = {"warning:zero_range"}
                 /\ pc[s] \notin {"filtered_lock", "filtered_plot"}
            ELSE /\ "bandpass" \in lib[s]
                 /\ "ZeroFrequencyRangeError@filtered" \notin v[s].raises
                 /\ "warning:zero_range" \notin Range(out[s])

\* a run with an empty frequency range that went on to its end
C6_Witness ==
    /\ pc[1] = "done"
    /\ w[1].f_range[1] = w[1].f_range[2]
    /\ "warning:zero_range" \in Range(out[1])

FigureTags ==
    {"figure:raw", "figure:flag", "figure:filtered", "figure:asd",
     "figure:spec", "figure:qtsf"}

\* the figures on the page of session s
Figures(page) ==
    {i \in 1 .. Len(page) : page[i] \in FigureTags}

\* C7: the plotting code of every section runs under the one lock
\* RendererAgg.lock: a thread inside a with block holds that lock, no two
\* threads are inside with blocks at the same time, and a figure reaches a
\* page only in a step of the thread that holds the lock.
C7_RenderingExclusive ==
    /\ [](\A s \in Sessions :
             pc[s] \in Plotting => lock["RendererAgg.lock"] = s)
    /\ [](\A s1, s2 \in Sessions :
             (pc[s1] \in Plotting /\ pc[s2] \in Plotting) => s1 = s2)
    /\ [][\A s \in Sessions :
             Figures(out'[s]) # Figures(out[s]) =>
                 \/ Figures(out'[s]) = {}
                 \/ /\ pc[s] \in Plotting
                    /\ lock["RendererAgg.lock"] = s]_vars

\* one thread draws its Q-transform while another waits to draw its raw data
C7_Witness ==
    /\ pc[1] = "qtsf_plot"
    /\ pc[2] = "raw_lock"

\* the run of session s has passed the call of make_specgram
SpecgramMade(s) ==
    /\ "subheader:spec" \in Range(out[s])
    /\ pc[s] \notin Ended

\* C8: in every run the strain handed to make_specgram and transform_strain
\* is the one the hashed arguments determine, and what the call returns, from
\* the cache or not, is what its body computes from the strain of this run.
C8_CacheHitIsFresh ==
    \A s \in Sessions :
        /\ SpecgramMade(s) =>
              /\ v[s].strain = fetch_open_data(v[s].desc)
              /\ v[s].strain_cropped =
                    strain_cropped(fetch_open_data(v[s].desc),
                                   v[s].t_plotstart, v[s].t_plotend)
              /\ v[s].specgram =
                    make_specgram(v[s].strain_cropped,
                                  spec_stride(w[s].t_width),
                                  spec_overlap(w[s].t_width))
        /\ Returned(s) =>
              LET fresh == transform_strain(v[s].strain, v[s].desc,
                               v[s].t_plotstart, v[s].t_plotend, T_PAD,
                               w[s].q0, w[s].whiten_qtsf)
              IN  /\ v[s].strain = fetch_open_data(v[s].desc)
                  /\ ~fresh.raised
                  /\ v[s].q_gram = fresh.q_gram
                  /\ v[s].q_warning = fresh.q_warning

\* a run that took both results from full caches, after other widths had
\* been plotted
C8_Witness ==
    /\ pc[1] = "q_after"
    /\ v[1].attempts = <<>>
    /\ "spectrogram" \notin lib[1]
    /\ "subheader:spec" \in Range(out[1])
    /\ Cardinality(specgram_cache) = SPECGRAM_MAX_ENTRIES
    /\ Cardinality(qgram_cache) = QGRAM_MAX_ENTRIES

\* C9: a run whose block (interferometer, t_start, t_end, sample rate) has
\* been loaded and is still in the cache does not call fetch_open_data, and
\* works on the strain of that block.
C9_NoRefetch ==
    [][\A s \in Sessions :
          (/\ pc[s] = "load"
           /\ pc'[s] # "load"
           /\ \E e \in strain_cache :
                 /\ e.fn = load_strain(v[s].desc.sample_rate)
                 /\ e.value = fetch_open_data(v[s].desc))
          => /\ "fetch_open_data" \notin lib'[s]
             /\ strain_cache' = strain_cache
             /\ pc'[s] = "raw"
             /\ v'[s].strain = fetch_open_data(v[s].desc)]_vars

\* a run with another timestamp and another width than the first one, in a
\* wide block, that loaded without fetching, while the cache of
\* load_high_rate_strain is full
C9_Witness ==
    /\ pc[1] = "raw"
    /\ "fetch_open_data" \notin lib[1]
    /\ w[1].cache_wide_blocks
    /\ w[1].t_width # INITIAL_WIDTH
    /\ w[1].t0_text.gps # INITIAL_T0_GPS
    /\ Cardinality({e \in strain_cache : e.fn = "load_high_rate_strain"})
          = HIGH_RATE_MAX_ENTRIES

\* the preparations of the run of session s are done
Prepared(s) ==
    pc[s] \notin {"idle", "prepare"} /\ v[s].desc # NoDescriptor

\* C10: in every run the paddings of the three attempts shrink strictly,
\* min(2.5 * T_PAD, room to the block edges) > T_PAD > 0, each padded window
\* lies in the loaded block, and so do the windows the attempts crop.
C10_WindowsShrinkInBlock ==
    \A s \in Sessions :
        Prepared(s) =>
            /\ ExpectedPadding(s, 1) > ExpectedPadding(s, 2)
            /\ ExpectedPadding(s, 2) > ExpectedPadding(s, 3)
            /\ ExpectedPadding(s, 3) = 0
            /\ \A i \in 1 .. 3 :
                  /\ v[s].desc.t_start
                        <= v[s].t_plotstart - ExpectedPadding(s, i)
                  /\ v[s].t_plotend + ExpectedPadding(s, i)
                        <= v[s].desc.t_end
            /\ \A i \in 1 .. Len(v[s].attempts) :
                  /\ v[s].desc.t_start <= v[s].attempts[i].lo
                  /\ v[s].attempts[i].hi <= v[s].desc.t_end
                  /\ v[s].attempts[i].lo
                        = v[s].t_plotstart - ExpectedPadding(s, i)
                  /\ v[s].attempts[i].hi
                        = v[s].t_plotend + ExpectedPadding(s, i)
            /\ \A i \in 1 .. Len(v[s].attempts) - 1 :
                  /\ v[s].attempts[i].lo < v[s].attempts[i + 1].lo
                  /\ v[s].attempts[i + 1].hi < v[s].attempts[i].hi

\* a run of three attempts whose first window begins at the block edge
C10_Witness ==
    /\ pc[1] = "done"
    /\ Len(v[1].attempts) = 3
    /\ v[1].attempts[1].lo = v[1].desc.t_start
    /\ v[1].attempts[1].lo < v[1].attempts[2].lo

\* what the sections after the raw section put on the page
LaterSectionTags ==
    {"write:skip_filtered", "subheader:filtered", "error:gap_filtered",
     "warning:zero_range", "figure:filtered", "warning:calib_filtered",
     "write:skip_asd", "subheader:asd", "error:gap_asd", "figure:asd",
     "warning:calib_asd", "warning:asd_bgnd",
     "write:skip_spec", "subheader:spec", "figure:spec",
     "write:skip_qtsf", "subheader:qtsf", "error:qtsf", "figure:qtsf",
     "warning:q_caveat_far", "warning:q_caveat"}

\* the page of a run that the raw section stopped
GapPage ==
    <<"info:t0", "loaded", "subheader:raw", "error:gap_raw", "figure:flag",
      "footer">>

\* C11: a run whose raw section detects a data gap shows the gap error, plots
\* the data segments, emits the footer and stops; no later section puts
\* anything on the page or calls the library in that run; so the spectrogram
\* section is only ever reached with a plotted strain free of NaN samples.
C11_GapStopsRun ==
    /\ [](\A s \in Sessions :
             ("error:gap_raw" \in Range(out[s])) =>
                 /\ Range(out[s]) \cap LaterSectionTags = {}
                 /\ lib[s] \subseteq {"fetch_open_data"}
                 /\ pc[s] \in {"flag_lock", "flag_plot", "stopped"}
                 /\ pc[s] = "stopped" => out[s] = GapPage)
    /\ [](\A s \in Sessions :
             pc[s] \in {"spec", "spec_lock", "spec_plot"} =>
                 ~ContainsNaN(v[s].strain_cropped))
    /\ \A s \in Sessions :
          ("error:gap_raw" \in Range(out[s])) ~> (pc[s] = "stopped")

\* a run stopped by a gap although every optional section was switched on
C11_Witness ==
    /\ pc[1] = "stopped"
    /\ out[1] = GapPage
    /\ w[1].do_plot
    /\ w[1].do_show_asd
    /\ w[1].do_spec
    /\ w[1].do_qtsf

MethodMessages ==
    {"error:gap_raw", "error:gap_filtered", "warning:zero_range",
     "error:gap_asd"}

\* C12: on a data gap plot_raw_data shows its error message and then lets the
\* DataGapError go on to its caller; plot_filtered_data and plot_asd_spectrum
\* show the message of every DataGapError and ZeroFrequencyRangeError they
\* raise and return; no exception leaves them.
C12_RawReraisesOthersReturn ==
    \A s \in Sessions :
        /\ pc[s] \in {"m_raw_raised", "m_raw_returned", "m_raw_lock",
                      "m_raw_plot"} =>
              /\ ContainsNaN(v[s].strain_cropped) <=> pc[s] = "m_raw_raised"
              /\ pc[s] = "m_raw_raised" =>
                    /\ v[s].exc = "DataGapError"
                    /\ out[s] = <<"error:gap_raw">>
              /\ pc[s] # "m_raw_raised" =>
                    /\ v[s].exc = ""
                    /\ Range(out[s]) \cap MethodMessages = {}
        /\ pc[s] \notin {"m_filtered_raised", "m_asd_raised"}
        /\ pc[s] \in {"m_filtered_returned", "m_filtered_lock",
                      "m_filtered_plot"} =>
              /\ v[s].exc = ""
              /\ "ZeroFrequencyRangeError@plot_filtered_data" \in v[s].raises
                    => (pc[s] = "m_filtered_returned"
                        /\ out[s] = <<"warning:zero_range">>)
              /\ "DataGapError@plot_filtered_data" \in v[s].raises
                    => (pc[s] = "m_filtered_returned"
                        /\ out[s] = <<"error:gap_filtered">>)
              /\ (w[s].f_range[1] >= w[s].f_range[2])
                    => "ZeroFrequencyRangeError@plot_filtered_data"
                          \in v[s].raises
        /\ pc[s] \in {"m_asd_returned", "m_asd_lock", "m_asd_plot"} =>
              /\ v[s].exc = ""
              /\ ContainsNaN(v[s].strain_cropped)
                    <=> "DataGapError@plot_asd_spectrum" \in v[s].raises
              /\ "DataGapError@plot_asd_spectrum" \in v[s].raises
                    => (pc[s] = "m_asd_returned"
                        /\ out[s] = <<"error:gap_asd">>)

\* plot_asd_spectrum has returned from a call on data with a gap
C12_Witness ==
    /\ pc[1] = "m_asd_returned"
    /\ out[1] = <<"error:gap_asd">>
    /\ ContainsNaN(v[1].strain_cropped)

\* the run of session s has plotted the raw data
RawPlotted(s) ==
    "figure:raw" \in Range(out[s])

\* the failures of the optional sections, as shown on the page
FailureTags ==
    {"error:gap_filtered", "warning:zero_range", "error:gap_asd",
     "error:qtsf"}

\* C13: once the raw plot has succeeded, no failure of the filtered section
\* (data gap, empty frequency range), of the ASD section (data gap) or of the
\* Q-transform ends the run: the run comes to its end with the footer, having
\* executed every later section that is switched on.
C13_FailuresIsolated ==
    /\ [](\A s \in Sessions :
             RawPlotted(s) =>
                 /\ pc[s] \notin {"uncaught", "stopped"}
                 /\ v[s].exc = ""
                 /\ pc[s] = "done" =>
                       /\ out[s][Len(out[s])] = "footer"
                       /\ w[s].do_plot =>
                             "subheader:filtered" \in Range(out[s])
                       /\ w[s].do_show_asd =>
                             "subheader:asd" \in Range(out[s])
                       /\ w[s].do_spec => "figure:spec" \in Range(out[s])
                       /\ w[s].do_qtsf =>
                             Range(out[s])
                                \cap {"figure:qtsf", "error:qtsf"} # {})
    /\ \A s \in Sessions :
          (RawPlotted(s) /\ Range(out[s]) \cap FailureTags # {})
              ~> (pc[s] = "done")

\* a run that ended with a failed filter and a failed Q-transform around a
\* spectrogram that was drawn
C13_Witness ==
    /\ pc[1] = "done"
    /\ "error:gap_filtered" \in Range(out[1])
    /\ "figure:asd" \in Range(out[1])
    /\ "figure:spec" \in Range(out[1])
    /\ "error:qtsf" \in Range(out[1])

\* the heading or the '(Skipping ...)' note each section begins with
Markers ==
    {"subheader:raw", "subheader:filtered", "write:skip_filtered",
     "subheader:asd", "write:skip_asd", "subheader:spec", "write:skip_spec",
     "subheader:qtsf", "write:skip_qtsf"}

IsMarker(tag) ==
    tag \in Markers

\* the markers a complete run of session s emits, by its Do/Don't choices
ExpectedMarkers(s) ==
    <<"subheader:raw",
      IF w[s].do_plot THEN "subheader:filtered" ELSE "write:skip_filtered",
      IF w[s].do_show_asd THEN "subheader:asd" ELSE "write:skip_asd",
      IF w[s].do_spec THEN "subheader:spec" ELSE "write:skip_spec",
      IF w[s].do_qtsf THEN "subheader:qtsf" ELSE "write:skip_qtsf">>

\* the heading under which an element of a section appears
HeadingOf(tag) ==
    IF tag \in {"error:gap_raw", "figure:raw", "figure:flag"}
    THEN "subheader:raw"
    ELSE IF tag \in {"error:gap_filtered", "warning:zero_range",
                     "figure:filtered", "warning:calib_filtered"}
    THEN "subheader:filtered"
    ELSE IF tag \in {"error:gap_asd", "figure:asd", "warning:calib_asd",
                     "warning:asd_bgnd"}
    THEN "subheader:asd"
    ELSE IF tag = "figure:spec" THEN "subheader:spec"
    ELSE "subheader:qtsf"

\* every element of a section stands under the heading of its section, with
\* no other section's marker in between
UnderOwnHeading(page) ==
    \A i \in 1 .. Len(page) :
        (page[i] \in LaterSectionTags \ Markers) =>
            \E j \in 1 .. i - 1 :
                /\ page[j] = HeadingOf(page[i])
                /\ \A k \in j + 1 .. i - 1 : page[k] \notin Markers

\* C14: the sections run in the order raw, filtered, ASD, spectrogram,
\* Q-transform; an optional section computes and plots exactly when its
\* choice is 'Do...', and otherwise emits its '(Skipping ...)' note and
\* nothing else; by default only the Q-transform is switched on.
C14_OrderAndChoices ==
    /\ DefaultWidgets.do_qtsf
    /\ ~DefaultWidgets.do_plot
    /\ ~DefaultWidgets.do_show_asd
    /\ ~DefaultWidgets.do_spec
    /\ \A s \in Sessions :
          LET markers == SelectSeq(out[s], IsMarker)
          IN  /\ Len(markers) <= 5
              /\ \A i \in 1 .. Len(markers) :
                    markers[i] = ExpectedMarkers(s)[i]
              /\ UnderOwnHeading(out[s])
              /\ pc[s] = "done" => Len(markers) = 5
              /\ ~w[s].do_plot => lib[s] \cap {"whiten", "bandpass"} = {}
              /\ ~w[s].do_show_asd => lib[s] \cap {"asd", "asd_bgnd"} = {}
              /\ ~w[s].do_spec =>
                    /\ "spectrogram" \notin lib[s]
                    /\ v[s].specgram = NoSpecgram
              /\ ~w[s].do_qtsf =>
                    /\ "q_transform" \notin lib[s]
                    /\ v[s].q_gram = NoQGram
              /\ (pc[s] = "done" /\ Range(out[s]) \cap FailureTags = {}) =>
                    /\ w[s].do_plot <=> "figure:filtered" \in Range(out[s])
                    /\ w[s].do_show_asd <=> "figure:asd" \in Range(out[s])
                    /\ w[s].do_spec <=> "figure:spec" \in Range(out[s])
                    /\ w[s].do_qtsf <=> "figure:qtsf" \in Range(out[s])

\* a complete run with the ASD switched on and the spectrogram skipped
C14_Witness ==
    /\ pc[1] = "done"
    /\ SelectSeq(out[1], IsMarker) =
          <<"subheader:raw", "write:skip_filtered", "subheader:asd",
            "write:skip_spec", "subheader:qtsf">>
    /\ "figure:asd" \in Range(out[1])
    /\ "figure:qtsf" \in Range(out[1])

\* the number of footers on a page
Footers(page) ==
    Cardinality({i \in 1 .. Len(page) : page[i] = "footer"})

\* the run of session s has ended through a path the script handles
HandledEnd(s) ==
    pc[s] \in {"stopped", "done"}

\* C15: a run that ends through a handled path (mistyped timestamp, failed
\* load, gap in the raw data, normal completion) has emitted the footer
\* exactly once, as the last element of its page; every run comes to such an
\* end.  (The memory profile goes to the console, not to the page.)
C15_FooterOnceAndLast ==
    /\ [](\A s \in Sessions :
             /\ Footers(out[s]) <= 1
             /\ HandledEnd(s) <=> Footers(out[s]) = 1
             /\ HandledEnd(s) => out[s][Len(out[s])] = "footer")
    /\ \A s \in Sessions : (pc[s] = "prepare") ~> HandledEnd(s)

\* a run that ended with the footer after the load failed
C15_Witness ==
    /\ pc[1] = "stopped"
    /\ "warning:load_failed" \in Range(out[1])
    /\ Footers(out[1]) = 1
    /\ out[1][Len(out[1])] = "footer"

\* the cache block size of the run of session s
BlockOf(s) ==
    t_cache_boundaries(w[s].sample_rate, w[s].cache_wide_blocks)

\* C16: t_start and t_end are multiples of the cache block size B (32 s, or
\* 256 s / 512 s with wide blocks at the high / low sample rate); t_start is
\* the largest multiple that is <= t0 - T_ELBOW_ROOM and t_end the smallest
\* that is >= t0 + T_ELBOW_ROOM; so [t0 - width/2, t0 + width/2] lies in
\* [t_start, t_end] for every selectable width.
C16_BlockEdges ==
    \A s \in Sessions :
        Prepared(s) =>
            LET B == BlockOf(s)
                t0 == w[s].t0_text.gps
                d == v[s].desc
            IN  /\ B = IF ~w[s].cache_wide_blocks THEN Sec(32)
                       ELSE IF w[s].sample_rate = HIGH_RATE THEN Sec(256)
                       ELSE Sec(512)
                /\ d.t_start % B = 0
                /\ d.t_end % B = 0
                /\ d.t_start <= t0 - T_ELBOW_ROOM
                /\ t0 - T_ELBOW_ROOM < d.t_start + B
                /\ t0 + T_ELBOW_ROOM <= d.t_end
                /\ d.t_end - B < t0 + T_ELBOW_ROOM
                /\ d.t_start <= v[s].t_plotstart
                /\ v[s].t_plotend <= d.t_end
                /\ v[s].t_plotstart = t0 - (w[s].t_width \div 2)
                /\ v[s].t_plotend = t0 + (w[s].t_width \div 2)
                /\ v[s].strain # NoSeries =>
                      /\ v[s].strain.lo = d.t_start
                      /\ v[s].strain.hi = d.t_end
                /\ \A t_width \in t_widths :
                      /\ d.t_start <= t0 - (t_width \div 2)
                      /\ t0 + (t_width \div 2) <= d.t_end

\* a run at the low sample rate whose loaded span ends exactly at
\* t0 + T_ELBOW_ROOM, plotted at the greatest width
C16_Witness ==
    /\ pc[1] = "done"
    /\ w[1].sample_rate = LOW_RATE
    /\ v[1].desc.t_end = w[1].t0_text.gps + T_ELBOW_ROOM
    /\ v[1].strain.hi = v[1].desc.t_end
    /\ w[1].t_width = Sec(64)

\* C17: with blocks of 32 s the loaded span t_end - t_start is 96 s or 128 s,
\* whatever t0 is.
C17_Loads96Or128 ==
    \A s \in Sessions :
        (Prepared(s) /\ ~w[s].cache_wide_blocks) =>
            /\ v[s].desc.t_end - v[s].desc.t_start \in {Sec(96), Sec(128)}
            /\ v[s].strain # NoSeries =>
                  v[s].strain.hi - v[s].strain.lo \in {Sec(96), Sec(128)}

\* a run that loaded 96 s of strain in blocks of 32 s
C17_Witness ==
    /\ pc[1] = "done"
    /\ ~w[1].cache_wide_blocks
    /\ v[1].strain.hi - v[1].strain.lo = Sec(96)

\* a run that loaded 128 s of strain in blocks of 32 s
Loaded128 ==
    /\ pc[1] = "done"
    /\ ~w[1].cache_wide_blocks
    /\ v[1].strain.hi - v[1].strain.lo = Sec(128)

\* the block loaded for INITIAL_T0_GPS with blocks of 32 s
InitialBlock(ifo, rate) ==
    DataDescriptor(ifo, t_start(INITIAL_T0_GPS, Sec(32)),
                   t_end(INITIAL_T0_GPS, Sec(32)), rate)

\* the timestamp of session s is within three seconds of INITIAL_T0_GPS
PannedByAtMost3(s) ==
    /\ w[s].t0_text.valid
    /\ w[s].t0_text.gps - INITIAL_T0_GPS \in -Sec(3) .. Sec(3)

\* C18: with blocks of 32 s, every timestamp within three seconds of
\* INITIAL_T0_GPS gives the same t_start and t_end as INITIAL_T0_GPS itself,
\* so the run works on the block loaded for INITIAL_T0_GPS.
C18_PanningKeepsBlock ==
    \A s \in Sessions :
        (Prepared(s) /\ ~w[s].cache_wide_blocks /\ PannedByAtMost3(s)) =>
            /\ v[s].desc.t_start = t_start(INITIAL_T0_GPS, Sec(32))
            /\ v[s].desc.t_end = t_end(INITIAL_T0_GPS, Sec(32))
            /\ v[s].strain # NoSeries =>
                  v[s].strain =
                     fetch_open_data(InitialBlock(w[s].interferometer,
                                                  w[s].sample_rate))

\* a run two seconds before INITIAL_T0_GPS that fetched its strain again,
\* with the block of INITIAL_T0_GPS in the cache
C18_PannedRefetch ==
    /\ pc[1] = "raw"
    /\ w[1].t0_text.gps = INITIAL_T0_GPS - Sec(2)
    /\ "fetch_open_data" \in lib[1]
    /\ v[1].desc.t_end = t_end(INITIAL_T0_GPS, Sec(32)) - Sec(32)
    /\ \E e \in strain_cache :
          /\ e.fn = load_strain(w[1].sample_rate)
          /\ e.value = fetch_open_data(InitialBlock(w[1].interferometer,
                                                    w[1].sample_rate))

\* C19: the background window of the ASD never leaves the loaded block: for
\* every t0, every width of t_widths and every offset of asd_offsets,
\* t_start <= t_plotstart + offset and t_plotend + offset <= t_end; the
\* strain cropped for the background spectrum spans the whole window.
C19_BackgroundInBlock ==
    \A s \in Sessions :
        Prepared(s) =>
            /\ w[s].asd_offset \in asd_offsets
            /\ \A offset \in asd_offsets :
                  /\ v[s].desc.t_start <= v[s].t_plotstart + offset
                  /\ v[s].t_plotend + offset <= v[s].desc.t_end
            /\ \A offset \in asd_offsets, t_width \in t_widths :
                  /\ v[s].desc.t_start
                        <= t_plotstart(w[s].t0_text.gps, t_width) + offset
                  /\ t_plotend(w[s].t0_text.gps, t_width) + offset
                        <= v[s].desc.t_end
            /\ "asd_bgnd" \in lib[s] =>
                  /\ strain_bgnd(s).lo = v[s].t_plotstart + w[s].asd_offset
                  /\ strain_bgnd(s).hi = v[s].t_plotend + w[s].asd_offset
                  /\ strain_bgnd(s).hi - strain_bgnd(s).lo = w[s].t_width

\* a background spectrum of 64 s taken 12 s earlier, in a block that begins
\* exactly at t0 - T_ELBOW_ROOM: the window keeps the least distance to the
\* block edge
C19_Witness ==
    /\ pc[1] = "done"
    /\ "asd_bgnd" \in lib[1]
    /\ "figure:asd" \in Range(out[1])
    /\ w[1].t_width = Sec(64)
    /\ w[1].asd_offset = -Sec(12)
    /\ v[1].desc.t_start = w[1].t0_text.gps - T_ELBOW_ROOM
    /\ strain_bgnd(1).lo - v[1].desc.t_start = T_ELBOW_ROOM - Sec(44)

\* session s holds a lock
Holds(s) ==
    \E l \in Locks : lock[l] = s

\* session s is inside a with _lock: block
InWith(s) ==
    pc[s] \in Plotting \cup MethodPlotting

\* C20: the rendering lock is held only inside a with block; a thread that
\* leaves the block, by its end or by an exception, no longer holds the lock;
\* no run that has stopped (st.stop), ended, or had plot_raw_data raise into
\* its caller holds the lock; every acquisition is followed by a release,
\* and a thread that waits for the lock gets it.
C20_LockReleased ==
    /\ [](\A s \in Sessions : Holds(s) => InWith(s))
    /\ [](\A s \in Sessions :
             pc[s] \in Ended \cup {"idle", "m_raw_raised", "m_raw_returned"}
                => ~Holds(s))
    /\ [][\A s \in Sessions :
             (InWith(s) /\ pc'[s] # pc[s]) =>
                 \A l \in Locks : lock'[l] # s]_vars
    /\ \A s \in Sessions : Holds(s) ~> ~Holds(s)
    /\ \A s \in Sessions :
          (pc[s] \in Waiting \cup MethodWaiting) ~> InWith(s)

\* one thread has left its with block by an exception and holds no lock;
\* another, which had waited, draws
C20_Witness ==
    /\ pc[1] = "uncaught"
    /\ v[1].exc = "RuntimeError"
    /\ ~Holds(1)
    /\ pc[2] \in Plotting
    /\ lock["RendererAgg.lock"] = 2

====
